---- MODULE Spec2Model ----
(***************************************************************************)
(* A model of the QA-Agents run: the CLI `run` command, QAOrchestrator     *)
(* (runTestSuite / runFeature / runScenario / analyzeFailed /              *)
(* generateFinalReport) and GherkinAgent.parseAndPlan with its plan cache. *)
(*                                                                         *)
(* Spec is one process: `qa-agents run` on a list of feature files.        *)
(* CacheSpec is the plan cache over a longer time: parseAndPlan called by  *)
(* successive processes while the feature files are edited and the clock   *)
(* advances.  The feature files' text, the cache directory and the clock   *)
(* live outside the process.                                               *)
(*                                                                         *)
(* External collaborators are nondeterministic choices over what they can  *)
(* do: the reasoning oracle (a reply, or a failure), the executor          *)
(* (executeStep returns a successful or an unsuccessful result, or         *)
(* raises), the diagnostic agent, the browser launch and the report sink.  *)
(***************************************************************************)
EXTENDS Integers, Sequences, FiniteSets, TLC

(**************************** bounds ***************************************)
\* feature files given to one run
MaxFeatures == 2
\* outcomes other than the nominal one (a step that fails or raises, a
\* diagnostic, launch, close or report that raises, an unusable oracle reply)
\* within one run
MaxFaults == 2
\* parseAndPlan calls over the history of the cache directory
MaxCompiles == 2
\* steps of the longest scenario
MaxSteps == 3
\* scenarios of the feature with several scenarios
MaxScenarios == 2
\* edits of feature files over the history of the cache directory
MaxEdits == 1
\* the example rows of a scenario outline
MaxRows == 2
\* the parts of a payload string, the items of a list, the fields of a field-map
MaxParts == 2

(**************************** inputs ***************************************)
\* feature files; two of them share a basename
Paths == {"a/login.feature", "b/login.feature", "cart.feature"}

\* the feature files whose plans go to the same cache file
SharedPaths == {"a/login.feature", "b/login.feature"}

\* path.basename(featureFilePath, '.feature')
Basename(p) ==
  CASE p = "a/login.feature" -> "login"
    [] p = "b/login.feature" -> "login"
    [] p = "cart.feature"    -> "cart"

\* texts a feature file can hold
Texts == {"noFeature", "single", "multi", "empty"}

\* texts with a payload or parameters: "signup" is one scenario whose step
\* types the quoted value "<email>", "outline" is one scenario outline of
\* MaxRows example rows whose step holds a <param> token
PayloadTexts == {"signup", "outline"}

\* the scenarios of the Gherkin document of a text, as the number of steps of
\* each: "single" is one scenario of MaxSteps steps, "multi" is MaxScenarios
\* scenarios, the first of two steps, "empty" is a feature without scenarios
DocScenarios(text) ==
  CASE text = "single" -> <<MaxSteps>>
    [] text = "multi"  -> [k \in 1..MaxScenarios |-> IF k = 1 THEN 2 ELSE 1]
    [] text \in PayloadTexts -> <<1>>
    [] OTHER           -> <<>>

\* a step payload: none, the token '<email>', or a generated address
\* `user_${randomStr}_${timestamp}@${domain}`
NoData == [kind |-> "none", rand |-> 0, at |-> 0]
EmailToken == [kind |-> "token", rand |-> 0, at |-> 0]

\* scenario.examples: the rows of the Examples table of scenario k
DocRows(text, k) == IF text = "outline" THEN MaxRows ELSE 0

\* the quoted value in the text of step j of scenario k
DocData(text, k, j) == IF text = "signup" THEN EmailToken ELSE NoData

\* the text of step j of scenario k holds a <param> token
DocParam(text, k, j) == text = "outline"

\* a plausible slip: the check of gherkinDocument.feature left out
HasFeature_Unchecked(text) == TRUE

\* gherkinDocument.feature is set
HasFeature(text) == text # "noFeature"

\* what the reasoning oracle can do with one request: reply with a plan of
\* testType web or salesforce that leaves every selector empty, reply with a
\* web plan whose steps carry a selector, reply with JSON that has no
\* scenarios, or fail (the request raises, or JSON.parse rejects the content)
OracleReplies == {"web", "salesforce", "selector", "malformed", "fail"}

\* the replies drawn where steps are not looked into (a run, the cache over
\* time): a plan with scenarios of either testType, or JSON without scenarios
RunReplies == {"web", "salesforce", "malformed"}

\* Math.random() in generateRandomEmail
Rands == {1, 2}

\* the draws of one parseAndPlan call: generateRandomEmail is called for a
\* payload with the token only
Draws(text) ==
  IF \E k \in 1..Len(DocScenarios(text)) : \E j \in 1..DocScenarios(text)[k] :
       DocData(text, k, j).kind = "token"
  THEN Rands ELSE {0}

\* executeStep: a successful result or an unsuccessful one; its try/catch
\* turns whatever the action raises into an unsuccessful result
StepOutcomes == {"ok", "fail"}

\* const maxAge = 7 * 24 * 60 * 60 * 1000; // 7 days
maxAge == 7 * 24 * 60 * 60 * 1000

\* instants (ms) at which the clock is read: two early ones, and two that
\* make an entry written at an early one maxAge - 1, maxAge or maxAge + 1 old
TimePoints == {0, 1, maxAge, maxAge + 1}

(**************************** state ****************************************)
VARIABLES
  files,          \* the text of each feature file
  cache,          \* the cache directory: one entry per cache file
  now,            \* Date.now()
  edits,          \* number of edits so far
  compiles,       \* number of parseAndPlan calls so far
  config,         \* GherkinAgent.enableCache / forceRegenerate
  featureFiles,   \* the argument of runTestSuite
  pc,             \* position of the run
  fi,             \* index of the feature being run (1-based)
  testPlan,       \* the plan of the feature being run
  si,             \* index of the scenario being run (1-based)
  i,              \* the step loop's i (0-based)
  scenarioResult, \* runScenario's scenarioResult
  featureResult,  \* runFeature's featureResult
  results,        \* QAOrchestrator.results
  overallStats,   \* QAOrchestrator.overallStats
  browser,        \* WebExecutorAgent.browser: "null" or "open"
  exitCode,       \* process exit status, -1 while the process runs
  sessionLog,     \* history: executor calls made for the current feature
  featureLog,     \* history: how each feature pushed to results went
  lastCompile,    \* history: what the last parseAndPlan call did
  compiledText,   \* history: the text each file had when last compiled (or at the start)
  lastStep,       \* history: the last executeStep and analyzeFailed calls
  faults,         \* number of non-nominal outcomes so far
  exec,           \* WebExecutorAgent.executeStep: the step being executed
  migration,      \* ReverseEngineerAgent: sources, migration cache, the call in progress
  flight,         \* the asynchronous operations of the run that have not completed
  draft,          \* GherkinAgent: one step of a plan while it is compiled
  pending         \* GherkinAgent: the parseAndPlan call that awaits the oracle

runVars == <<featureFiles, pc, fi, testPlan, si, i, scenarioResult,
             featureResult, results, overallStats, browser, exitCode,
             sessionLog, featureLog, lastStep, faults>>
vars == <<files, cache, now, edits, compiles, compiledText, config, featureFiles,
          pc, fi, testPlan, si, i, scenarioResult, featureResult, results,
          overallStats, browser, exitCode, sessionLog, featureLog, lastCompile,
          lastStep, faults, exec, migration, flight, draft, pending>>

(**************************** GherkinAgent *********************************)
\* a plan value that stands for null. A plan keeps, as history, the text it
\* was compiled from (source): its feature name, description, scenarios and
\* metadata all derive from that text
NullPlan == [source |-> "null", type |-> "null", wellFormed |-> FALSE, scenarios |-> <<>>]

NoEntry == [contentHash |-> "absent", timestamp |-> 0, plan |-> NullPlan]

\* crypto.createHash('md5').update(content).digest('hex'); the texts of the
\* model have pairwise different digests
generateHash(content) ==
  CASE content = "noFeature" -> "d41d8c"
    [] content = "single"    -> "5f3a90"
    [] content = "multi"     -> "c17e02"
    [] content = "empty"     -> "9b6d4e"
    [] content = "signup"    -> "e4a7b1"
    [] content = "outline"   -> "07c2fd"

\* path.join(cacheDir, `${filename}.cache.json`)
getCacheFilePath(featureFilePath) == Basename(featureFilePath)

\* a plausible slip: the cache file is never taken
getCachedPlan_NeverHits(featureFilePath, content) == NullPlan

\* a plausible slip: the age check left out
CacheExpired_NoAgeCheck(cacheAge) == FALSE

\* cacheAge > maxAge
CacheExpired(cacheAge) == cacheAge > maxAge

\* a plausible slip: the entry of the cache file is taken whatever its hash
HashChanged_NoHashCheck(storedHash, currentHash) == FALSE

\* cached.contentHash !== currentHash
HashChanged(storedHash, currentHash) == storedHash # currentHash

\* a cache file that readFileSync or JSON.parse raises on: its text is not
\* JSON ("garbled"), or the path cannot be opened at all ("locked": a
\* directory, or no permission), which also makes writeFileSync raise
Unreadable(cached) == cached.contentHash \in {"garbled", "locked"}

Unwritable(cached) == cached.contentHash = "locked"

getCachedPlan(featureFilePath, content) ==
  LET cached == cache[getCacheFilePath(featureFilePath)]
      cacheAge == now - cached.timestamp
  IN  IF cached = NoEntry THEN NullPlan
      ELSE IF Unreadable(cached) THEN NullPlan
      ELSE IF HashChanged(cached.contentHash, generateHash(content)) THEN NullPlan
      ELSE IF CacheExpired(cacheAge) THEN NullPlan
      ELSE cached.plan

\* the cache directory after saveToCache
saveToCache(featureFilePath, content, plan) ==
  IF Unwritable(cache[getCacheFilePath(featureFilePath)]) THEN cache
  ELSE [cache EXCEPT ![getCacheFilePath(featureFilePath)] =
          [contentHash |-> generateHash(content), timestamp |-> now, plan |-> plan]]

\* guessSelector: the first quoted value of the step text, or null
guessSelector(data) == IF data.kind = "none" THEN "null" ELSE "quoted"

\* the scenarios of basicInterpretation: one per scenario of the document,
\* named as in the document, its steps as written (a <param> token stays
\* in the description), selector and data guessed from the quoted values
PlanScenarios(text) ==
  [k \in 1..Len(DocScenarios(text)) |->
     [name |-> k, example |-> 0,
      steps |-> [j \in 1..DocScenarios(text)[k] |->
                   [description |-> j, residual |-> DocParam(text, k, j), row |-> 0,
                    data |-> DocData(text, k, j),
                    selector |-> guessSelector(DocData(text, k, j))]]]]

\* buildInterpretationPrompt, one scenario of the document: a scenario with
\* Examples becomes one scenario per row, named `${name} (Example ${index + 1})`,
\* each <param> of its step texts replaced by the value of the row
ExpandScenario(text, k) ==
  IF DocRows(text, k) > 0
  THEN [r \in 1..DocRows(text, k) |->
          [name |-> k, example |-> r,
           steps |-> [j \in 1..DocScenarios(text)[k] |->
                        [text |-> j, residual |-> FALSE, row |-> r]]]]
  ELSE << [name |-> k, example |-> 0,
           steps |-> [j \in 1..DocScenarios(text)[k] |->
                        [text |-> j, residual |-> DocParam(text, k, j), row |-> 0]]] >>

RECURSIVE PromptFrom(_, _)
PromptFrom(text, k) ==
  IF k > Len(DocScenarios(text)) THEN <<>>
  ELSE ExpandScenario(text, k) \o PromptFrom(text, k + 1)

\* buildInterpretationPrompt: the scenarios the oracle is asked to convert
buildInterpretationPrompt(text) == PromptFrom(text, 1)

\* the scenarios of a reply that follows the prompt: one per scenario of the
\* prompt, the quoted value as data, and the selector the oracle chose
OracleScenarios(text, selector) ==
  LET prompt == buildInterpretationPrompt(text)
  IN  [n \in 1..Len(prompt) |->
         [name |-> prompt[n].name, example |-> prompt[n].example,
          steps |-> [j \in 1..Len(prompt[n].steps) |->
                       [description |-> prompt[n].steps[j].text,
                        residual |-> prompt[n].steps[j].residual,
                        row |-> prompt[n].steps[j].row,
                        data |-> DocData(text, prompt[n].name, j),
                        selector |-> selector]]]]

\* basicInterpretation: testType web, one plan step per Gherkin step
basicInterpretation(text) == [testType |-> "web", wellFormed |-> TRUE, scenarios |-> PlanScenarios(text)]

\* interpretWithAI: the parsed reply as it is, or the basic interpretation
\* when the request or JSON.parse raises
interpretWithAI(text, reply) ==
  CASE reply = "fail"      -> basicInterpretation(text)
    [] reply = "malformed" -> [testType |-> "undefined", wellFormed |-> FALSE, scenarios |-> <<>>]
    [] reply = "selector"  -> [testType |-> "web", wellFormed |-> TRUE,
                               scenarios |-> OracleScenarios(text, "oracle")]
    [] OTHER               -> [testType |-> reply, wellFormed |-> TRUE,
                               scenarios |-> OracleScenarios(text, "")]

\* generateRandomEmail: `user_${randomStr}_${Date.now()}@${domain}`
generateRandomEmail(rand) == [kind |-> "email", rand |-> rand, at |-> now]

\* replacePlaceholder: a value with the pattern <email> gets a new address
replacePlaceholder(value, rand) ==
  IF value.kind = "token" THEN generateRandomEmail(rand) ELSE value

\* processDynamicPlaceholders, on a plan with scenarios: step.data replaced
\* in place (the texts of the model hold one payload, so one draw)
processDynamicPlaceholders(plan, rand) ==
  [plan EXCEPT !.scenarios =
     [n \in 1..Len(plan.scenarios) |->
        [plan.scenarios[n] EXCEPT !.steps =
           [j \in 1..Len(plan.scenarios[n].steps) |->
              [plan.scenarios[n].steps[j] EXCEPT !.data = replacePlaceholder(@, rand)]]]]]

\* a plausible slip: the plan saved after the placeholders were processed
CachedArtifact_AfterSubstitution(plan, substituted) == substituted

\* what parseAndPlan hands to saveToCache: the plan before
\* processDynamicPlaceholders
CachedArtifact(plan, substituted) == plan

\* processDynamicPlaceholders raises on a plan without scenarios
\* (plan.scenarios.forEach of undefined)
PlaceholdersRaise(plan) == ~plan.wellFormed

\* a plausible slip: the cache consulted although force is on
ConsultsCache_IgnoresForce(enableCache, forceRegenerate) == enableCache

\* if (this.enableCache && !this.forceRegenerate)
ConsultsCache(enableCache, forceRegenerate) == enableCache /\ ~forceRegenerate

\* a plausible slip: the fallback plan returned without being saved
SavesPlan_OracleOnly(enableCache, reply) == enableCache /\ reply # "fail"

\* if (this.enableCache) this.saveToCache(...), whatever interpretWithAI did
SavesPlan(enableCache, reply) == enableCache

\* parseAndPlan up to `await this.interpretWithAI(...)`: the file is read and
\* the cache consulted; it returns the cached plan, raises on a source without
\* a feature block, or goes on to ask the oracle
checkCache(featureFilePath, rand) ==
  LET content == files[featureFilePath]
      cachedPlan == IF ConsultsCache(config.enableCache, config.forceRegenerate)
                    THEN getCachedPlan(featureFilePath, content) ELSE NullPlan
  IN  IF cachedPlan # NullPlan
      THEN [returns |-> TRUE, raised |-> PlaceholdersRaise(cachedPlan), hit |-> TRUE,
            plan |-> IF PlaceholdersRaise(cachedPlan) THEN cachedPlan
                     ELSE processDynamicPlaceholders(cachedPlan, rand),
            cache |-> cache, oracle |-> FALSE, reply |-> "none", saved |-> FALSE]
      ELSE IF ~HasFeature(content)
      THEN [returns |-> TRUE, raised |-> TRUE, hit |-> FALSE, plan |-> NullPlan,
            cache |-> cache, oracle |-> FALSE, reply |-> "none", saved |-> FALSE]
      ELSE [returns |-> FALSE, raised |-> FALSE, hit |-> FALSE, plan |-> NullPlan,
            cache |-> cache, oracle |-> TRUE, reply |-> "none", saved |-> FALSE]

\* parseAndPlan from the answer of interpretWithAI on: the plan is built from
\* the content read before the request and saved to the cache directory as it
\* is by then, and the placeholders are substituted
interpretAndSave(featureFilePath, content, reply, rand) ==
  LET executionPlan == interpretWithAI(content, reply)
      plan == [source |-> content, type |-> executionPlan.testType,
               wellFormed |-> executionPlan.wellFormed, scenarios |-> executionPlan.scenarios]
      saved == IF SavesPlan(config.enableCache, reply)
               THEN saveToCache(featureFilePath, content,
                                CachedArtifact(plan, processDynamicPlaceholders(plan, rand)))
               ELSE cache
  IN  [returns |-> TRUE, raised |-> PlaceholdersRaise(plan), hit |-> FALSE,
       plan |-> IF PlaceholdersRaise(plan) THEN plan
                ELSE processDynamicPlaceholders(plan, rand),
       cache |-> saved, oracle |-> TRUE, reply |-> reply,
       saved |-> SavesPlan(config.enableCache, reply)
                   /\ ~Unwritable(cache[getCacheFilePath(featureFilePath)])]

\* parseAndPlan as one uninterrupted call: what it returns or that it raises,
\* the cache it leaves, whether it asked the oracle and whether it wrote the
\* cache file
parseAndPlan(featureFilePath, reply, rand) ==
  LET head == checkCache(featureFilePath, rand)
  IN  IF head.returns THEN head
      ELSE interpretAndSave(featureFilePath, files[featureFilePath], reply, rand)

\* clearCache: the cache files are unlinked in the order of readdirSync; an
\* unlinkSync that raises, on a path that cannot be opened, ends the loop
clearCache(raises) ==
  LET order == <<"cart", "login">>
      locked == {n \in 1..Len(order) : Unwritable(cache[order[n]])}
      stop == IF raises /\ locked # {}
              THEN CHOOSE n \in locked : \A m \in locked : n <= m
              ELSE Len(order) + 1
  IN  [c \in DOMAIN cache |->
         IF \E n \in 1..Len(order) : order[n] = c /\ n < stop THEN NoEntry ELSE cache[c]]

(**************************** QAOrchestrator *******************************)
NoScenarioResult == [name |-> 0, steps |-> <<>>, status |-> "none", planSteps |-> 0]
NoFeatureResult == [featureFile |-> "none", scenarios |-> <<>>, status |-> "none"]
NoStep == [out |-> "none", diag |-> "none", failedBefore |-> 0]
NoCompile == [path |-> "none", text |-> "none", hit |-> FALSE, raised |-> FALSE,
              age |-> 0, stored |-> "absent", plan |-> NullPlan, changed |-> FALSE,
              consulted |-> FALSE, at |-> 0, oracle |-> FALSE, reply |-> "none",
              saved |-> FALSE]
NoPending == [path |-> "none", content |-> "none", seen |-> NoCompile]

\* the constructor: empty results and zeroed counters
NewStats == [totalFeatures |-> 0, totalScenarios |-> 0, totalSteps |-> 0, passed |-> 0, failed |-> 0]

\* selectExecutor
selectExecutor(testType) == IF testType = "salesforce" THEN "salesforce" ELSE "web"

\* a plausible slip: only 'failed' scenarios fail the feature, 'error' ones do not
FeatureStatus_IgnoresError(scenarios) ==
  IF \A k \in 1..Len(scenarios) : scenarios[k].status # "failed" THEN "passed" ELSE "failed"

\* featureResult.scenarios.every(s => s.status === 'passed') ? 'passed' : 'failed'
FeatureStatus(scenarios) ==
  IF \A k \in 1..Len(scenarios) : scenarios[k].status = "passed" THEN "passed" ELSE "failed"

\* a plausible slip: the catch marks the feature but does not push it
FeatureCatch_NoPush(rs, fr) == rs

\* the catch of runFeature: the feature is marked 'error' and pushed
FeatureCatch(rs, fr) == Append(rs, [fr EXCEPT !.status = "error"])

\* a plausible slip: no break after an unsuccessful step
LoopContinues_NoBreak(stepResult) == TRUE

\* the step loop goes on to the next step after this result
LoopContinues(stepResult) == stepResult.success

\* a plausible slip: 'passed' assigned whatever the status
StatusAfterLoop_Always(status) == "passed"

\* if (scenarioResult.status === 'running') scenarioResult.status = 'passed'
StatusAfterLoop(status) == IF status = "running" THEN "passed" ELSE status

\* a plausible slip: the catch marks the scenario 'failed'
ScenarioCatch_Failed(sr) == [sr EXCEPT !.status = "failed"]

\* the catch of runScenario
ScenarioCatch(sr) == [sr EXCEPT !.status = "error"]

\* a plausible slip: the catch of runScenario does not count the raise
CaughtCounted_NotCounted(stats) == stats

\* the catch of runScenario: this.overallStats.failed++
CaughtCounted(stats) == [stats EXCEPT !.failed = @ + 1]

\* a plausible slip: no try/catch around the diagnostic agent
analyzeFailed_NoCatch(stepResult, diagOutcome) ==
  [raised |-> diagOutcome = "raise",
   stepResult |-> IF diagOutcome = "ok" THEN [stepResult EXCEPT !.diagnostic = TRUE]
                  ELSE stepResult]

\* analyzeFailed: the step result it leaves and whether it raises
analyzeFailed(stepResult, diagOutcome) ==
  IF diagOutcome = "ok"
  THEN [raised |-> FALSE, stepResult |-> [stepResult EXCEPT !.diagnostic = TRUE]]
  ELSE [raised |-> FALSE, stepResult |-> stepResult]

\* a plausible slip: the exit status taken from the passed counter
ExitCode_FromPassed(summary) == IF summary.passed = 0 THEN 1 ELSE 0

\* report.summary.failed > 0 ? 1 : 0
ExitCode(summary) == IF summary.failed > 0 THEN 1 ELSE 0

\* a step payload in full: null, a string, a list or a field-map. A string is
\* the sequence of its parts, an item is a string (form "string") or an
\* object whose value is a string (form "value")
NullData == [shape |-> "null", value |-> <<>>, items |-> <<>>]

\* no step being compiled
NoDraft == [pc |-> "none", keyword |-> "none", text |-> {}, reply |-> "none",
            action |-> "none", data |-> NullData, source |-> NullData]

(**************************** initial state ********************************)
Configs == [enableCache : BOOLEAN, forceRegenerate : BOOLEAN]

FeatureLists == UNION {[1..n -> Paths] : n \in 1..MaxFeatures}

\* the feature files of the run: cart.feature holds no feature block, or a
\* feature without scenarios
InitialFiles ==
  {[p \in Paths |-> CASE p = "a/login.feature" -> "multi"
                      [] p = "b/login.feature" -> "single"
                      [] OTHER -> cartText] : cartText \in {"noFeature", "empty"}}

\* the state outside the process: the files, an empty cache directory, the clock
Outside ==
  /\ files \in InitialFiles
  /\ cache = [c \in {Basename(p) : p \in Paths} |-> NoEntry]
  /\ now = 0
  /\ edits = 0
  /\ compiles = 0
  /\ compiledText = files
  /\ lastCompile = NoCompile
  /\ config \in Configs

\* no page content
NoPage == [primary |-> FALSE, alt |-> FALSE, generic |-> FALSE]

\* no step result yet
NoResult == [success |-> FALSE, clicked |-> "none", navigated |-> "none",
             validated |-> FALSE, result |-> "none",
             screenshot |-> "none", diagnostics |-> FALSE]

\* the executor before any step
NoExec == [action |-> "none", pc |-> "idle", form |-> "table", useVision |-> TRUE,
           page |-> NoPage, vision |-> "none", confidence |-> "none", reasoning |-> "none",
           element |-> "null", located |-> FALSE, present |-> FALSE,
           finalSelector |-> "none", tried |-> {}, primitives |-> {}, attempts |-> <<>>,
           oracleCalls |-> 0, visionShot |-> "none",
           retryCount |-> 0, rounds |-> 0, domFound |-> FALSE, found |-> FALSE,
           payload |-> "none", webAppUrl |-> "unset", validation |-> "missing",
           error |-> "none", result |-> NoResult]

\* the Playwright test files of a migration and their contents
MigratePaths == {"tests/login.spec.ts", "e2e/login.spec.ts", "cart.spec.ts"}
MigrateTexts == {"v1", "v2"}

\* path.basename
MigrateBasename(p) == IF p = "cart.spec.ts" THEN "cart.spec.ts" ELSE "login.spec.ts"

\* no processFile call yet
NoMigrated == [path |-> "none", skipped |-> FALSE, force |-> FALSE, found |-> "absent",
               hashAtCheck |-> "none", oracle |-> FALSE, written |-> FALSE,
               reply |-> "none", raised |-> FALSE, hashAtUpdate |-> "none",
               saved |-> FALSE]

\* a ReverseEngineerAgent right after construction, the sources, an empty
\* migrate/.migrate-cache.json
NoMigration == [pc |-> "idle", force |-> FALSE,
                src |-> [p \in MigratePaths |-> "v1"],
                disk |-> [b \in {MigrateBasename(p) : p \in MigratePaths} |-> "absent"],
                loadedCache |-> [b \in {MigrateBasename(p) : p \in MigratePaths} |-> "absent"],
                file |-> "none", read |-> "none", calls |-> 0, edits |-> 0,
                last |-> NoMigrated]

\* no run in progress
NoFlight == [pc |-> "idle", nf |-> 0, ns |-> 0, nk |-> 0, f |-> 0, s |-> 0, k |-> 0,
             running |-> {}, analysed |-> 0]

\* a process right after `new QAOrchestrator(config)`
Constructed ==
  /\ fi = 1
  /\ testPlan = NullPlan
  /\ si = 1
  /\ i = 0
  /\ scenarioResult = NoScenarioResult
  /\ featureResult = NoFeatureResult
  /\ results = <<>>
  /\ overallStats = NewStats
  /\ browser = "null"
  /\ exitCode = -1
  /\ sessionLog = <<>>
  /\ featureLog = <<>>
  /\ lastStep = NoStep
  /\ faults = 0
  /\ exec = NoExec
  /\ migration = NoMigration
  /\ flight = NoFlight
  /\ draft = NoDraft
  /\ pending = NoPending

\* `qa-agents run`, about to call runTestSuite(featureFiles)
Init ==
  /\ Outside
  /\ Constructed
  /\ featureFiles \in FeatureLists
  /\ pc = "suite"

(**************************** actions **************************************)
\* the position after the current feature's result has been pushed
AfterFeature == IF fi + 1 > Len(featureFiles) THEN "report" ELSE "feature"

\* the budget of non-nominal outcomes allows `cost` more
Affordable(cost) == faults + cost <= MaxFaults

\* runTestSuite up to its loop: totalFeatures is set
StartSuite ==
  /\ pc = "suite"
  /\ overallStats' = [overallStats EXCEPT !.totalFeatures = Len(featureFiles)]
  /\ pc' = "feature"
  /\ UNCHANGED <<files, cache, now, edits, compiles, compiledText, config, featureFiles,
                 fi, testPlan, si, i, scenarioResult, featureResult, results,
                 browser, exitCode, sessionLog, featureLog, lastCompile, lastStep, faults>>
  /\ UNCHANGED <<exec, migration, flight, draft, pending>>

\* what parseAndPlan saw and did, for the claims about the cache
CompileRecord(path, r) ==
  LET entry == cache[getCacheFilePath(path)]
  IN  [path |-> path, text |-> files[path], hit |-> r.hit, raised |-> r.raised,
       age |-> IF entry = NoEntry THEN 0 ELSE now - entry.timestamp,
       stored |-> entry.contentHash,
       plan |-> r.plan,
       changed |-> compiledText[path] # files[path],
       consulted |-> config.enableCache /\ ~config.forceRegenerate,
       at |-> now, oracle |-> r.oracle, reply |-> r.reply, saved |-> r.saved]

\* the effect of one parseAndPlan call outside the process, and its record
Compiled(path, r) ==
  /\ cache' = r.cache
  /\ compiles' = compiles + 1
  /\ compiledText' = [compiledText EXCEPT ![path] = files[path]]
  /\ lastCompile' = CompileRecord(path, r)

\* history: a feature whose result is pushed: whether its plan compiled, what
\* raised, the scenarios of its plan and the executor calls made for it
FeatureRecord(compiled, raised, planScenarios, session) ==
  [compiled |-> compiled, raised |-> raised, planScenarios |-> planScenarios,
   session |-> session]

\* runFeature, from its start to the plan: parseAndPlan, and the catch when
\* it raises
Compile ==
  /\ pc = "feature"
  /\ \E reply \in RunReplies, rand \in Draws(files[featureFiles[fi]]) :
       LET path == featureFiles[fi]
           r == parseAndPlan(path, reply, rand)
           fr == [featureFile |-> path, scenarios |-> <<>>, status |-> "running"]
           cost == IF reply \in {"web", "salesforce"} THEN 0 ELSE 1
       IN  /\ Affordable(cost)
           /\ faults' = faults + cost
           /\ Compiled(path, r)
           /\ sessionLog' = <<>>
           /\ IF r.raised
              THEN /\ results' = FeatureCatch(results, fr)
                   /\ featureLog' = Append(featureLog, FeatureRecord(FALSE, "compile", 0, <<>>))
                   /\ featureResult' = NoFeatureResult
                   /\ testPlan' = NullPlan
                   /\ fi' = fi + 1
                   /\ pc' = AfterFeature
                   /\ UNCHANGED overallStats
              ELSE /\ featureResult' = fr
                   /\ testPlan' = r.plan
                   /\ overallStats' = [overallStats EXCEPT
                        !.totalScenarios = @ + Len(r.plan.scenarios)]
                   /\ pc' = "init"
                   /\ UNCHANGED <<results, featureLog, fi>>
  /\ UNCHANGED <<files, now, edits, config, featureFiles, si, i,
                 scenarioResult, browser, exitCode, lastStep>>
  /\ UNCHANGED <<exec, migration, flight, draft, pending>>

\* runFeature's catch around a rejected await of initialize: the feature is
\* pushed 'error', cleanup is not called
InitializeCaught(raised) ==
  /\ Affordable(1)
  /\ faults' = faults + 1
  /\ results' = FeatureCatch(results, featureResult)
  /\ featureLog' = Append(featureLog,
       FeatureRecord(TRUE, raised, Len(testPlan.scenarios), sessionLog))
  /\ featureResult' = NoFeatureResult
  /\ testPlan' = NullPlan
  /\ fi' = fi + 1
  /\ pc' = AfterFeature
  /\ UNCHANGED si

\* initialize has returned: runFeature goes on to its scenarios
InitializeReturned ==
  /\ si' = 1
  /\ pc' = IF Len(testPlan.scenarios) = 0 THEN "cleanup" ELSE "scenario"
  /\ UNCHANGED <<results, featureLog, featureResult, testPlan, fi, faults>>

\* runFeature: selectExecutor and the call of executor.initialize(). The stub
\* returns without leaving the turn; the web executor leaves it at
\* await chromium.launch(...)
Initialize ==
  /\ pc = "init"
  /\ sessionLog' = Append(sessionLog, "initialize")
  /\ IF selectExecutor(testPlan.type) = "salesforce"
     THEN InitializeReturned
     ELSE /\ pc' = "launch"
          /\ UNCHANGED <<results, featureLog, featureResult, testPlan, fi, faults, si>>
  /\ UNCHANGED <<files, cache, now, edits, compiles, compiledText, config, featureFiles,
                 i, scenarioResult, overallStats, exitCode, lastCompile, lastStep, browser>>
  /\ UNCHANGED <<exec, migration, flight, draft, pending>>

\* WebExecutorAgent.initialize: chromium.launch settles. Resolved, this.browser
\* is assigned and newContext is awaited; rejected, this.browser is as it was
LaunchSettles ==
  /\ pc = "launch"
  /\ \E out \in {"ok", "raise"} :
       IF out = "ok"
       THEN /\ browser' = "open"
            /\ pc' = "newContext"
            /\ UNCHANGED <<results, featureLog, featureResult, testPlan, fi, faults, si>>
       ELSE /\ InitializeCaught("launch")
            /\ UNCHANGED browser
  /\ UNCHANGED <<files, cache, now, edits, compiles, compiledText, config, featureFiles,
                 i, scenarioResult, overallStats, exitCode, lastCompile, lastStep,
                 sessionLog>>
  /\ UNCHANGED <<exec, migration, flight, draft, pending>>

\* WebExecutorAgent.initialize: browser.newContext settles, then
\* context.newPage; the browser is open while either is pending, and stays
\* open when one rejects
SessionSettles ==
  /\ pc \in {"newContext", "newPage"}
  /\ \E out \in {"ok", "raise"} :
       IF out = "ok"
       THEN IF pc = "newContext"
            THEN /\ pc' = "newPage"
                 /\ UNCHANGED <<results, featureLog, featureResult, testPlan, fi, faults, si>>
            ELSE InitializeReturned
       ELSE InitializeCaught(pc)
  /\ UNCHANGED <<files, cache, now, edits, compiles, compiledText, config, featureFiles,
                 i, scenarioResult, overallStats, exitCode, lastCompile, lastStep,
                 sessionLog, browser>>
  /\ UNCHANGED <<exec, migration, flight, draft, pending>>

\* runScenario up to its loop: a fresh scenarioResult, status 'running'
BeginScenario ==
  /\ pc = "scenario"
  /\ scenarioResult' = [name |-> testPlan.scenarios[si].name, steps |-> <<>>,
                        status |-> "running",
                        planSteps |-> Len(testPlan.scenarios[si].steps)]
  /\ i' = 0
  /\ sessionLog' = Append(sessionLog, "scenario")
  /\ pc' = "step"
  /\ UNCHANGED <<files, cache, now, edits, compiles, compiledText, config, featureFiles,
                 fi, testPlan, si, featureResult, results, overallStats, browser,
                 exitCode, featureLog, lastCompile, lastStep, faults>>
  /\ UNCHANGED <<exec, migration, flight, draft, pending>>

\* what executeStep can do: the stub always returns a successful result, the
\* web executor returns a successful or an unsuccessful one and never rejects
ExecOutcomes(executor) == IF executor = "salesforce" THEN {"ok"} ELSE StepOutcomes

\* scenarioResult.steps.push(stepResult), placed after the success check
PushResult_OnSuccessOnly(steps, stepResult) ==
  IF stepResult.success THEN Append(steps, stepResult) ELSE steps

\* scenarioResult.steps.push(stepResult)
PushResult(steps, stepResult) == Append(steps, stepResult)

\* the step loop of runScenario from the return of executeStep to the next
\* loop test or the break: the push, the counter, analyzeFailed (whose
\* DiagnosticAgent does no I/O: the await resumes within the turn)
StepReturned(counted, out, diagOutcome) ==
  LET stepResult == [success |-> out = "ok", step |-> i + 1, diagnostic |-> FALSE]
      analysed == analyzeFailed(stepResult, diagOutcome)
      cost == (IF out = "ok" THEN 0 ELSE 1) + (IF diagOutcome = "raise" THEN 1 ELSE 0)
  IN  /\ Affordable(cost)
      /\ faults' = faults + cost
      /\ lastStep' = [out |-> out, diag |-> diagOutcome,
                      failedBefore |-> overallStats.failed]
      /\ IF LoopContinues(stepResult)
         THEN /\ scenarioResult' = [scenarioResult EXCEPT !.steps = PushResult(@, stepResult)]
              /\ overallStats' = [counted EXCEPT !.passed = @ + 1]
              /\ i' = i + 1
              /\ pc' = "step"
         ELSE /\ IF analysed.raised
                 THEN /\ scenarioResult' = ScenarioCatch(
                           [scenarioResult EXCEPT !.steps = PushResult(@, analysed.stepResult)])
                      /\ overallStats' = CaughtCounted([counted EXCEPT !.failed = @ + 1])
                 ELSE /\ scenarioResult' = [scenarioResult EXCEPT
                           !.steps = PushResult(@, analysed.stepResult), !.status = "failed"]
                      /\ overallStats' = [counted EXCEPT !.failed = @ + 1]
              /\ pc' = "endScenario"
              /\ UNCHANGED i

\* one iteration of the step loop of runScenario up to the await of
\* executeStep: totalSteps++ and the call. The stub returns its successful
\* result without leaving the turn; the web executor awaits the browser
ExecuteStep ==
  /\ pc = "step"
  /\ i < Len(testPlan.scenarios[si].steps)
  /\ IF selectExecutor(testPlan.type) = "salesforce"
     THEN StepReturned([overallStats EXCEPT !.totalSteps = @ + 1], "ok", "none")
     ELSE /\ overallStats' = [overallStats EXCEPT !.totalSteps = @ + 1]
          /\ pc' = "inStep"
          /\ UNCHANGED <<i, scenarioResult, lastStep, faults>>
  /\ UNCHANGED <<files, cache, now, edits, compiles, compiledText, config, featureFiles,
                 fi, testPlan, si, featureResult, results, browser, exitCode,
                 sessionLog, featureLog, lastCompile>>
  /\ UNCHANGED <<exec, migration, flight, draft, pending>>

\* the awaited executeStep of the web executor resolves with its result
StepResolves ==
  /\ pc = "inStep"
  /\ \E out \in ExecOutcomes(selectExecutor(testPlan.type)) :
     \E diagOutcome \in IF out = "fail" THEN {"ok", "raise"} ELSE {"none"} :
       StepReturned(overallStats, out, diagOutcome)
  /\ UNCHANGED <<files, cache, now, edits, compiles, compiledText, config, featureFiles,
                 fi, testPlan, si, featureResult, results, browser, exitCode,
                 sessionLog, featureLog, lastCompile>>
  /\ UNCHANGED <<exec, migration, flight, draft, pending>>

\* the awaited executeStep rejects: the catch of runScenario. The step was
\* counted at the call, nothing is pushed, the scenario ends 'error'. No
\* executor of the repository rejects, so this step belongs to RejectSpec
\* only, where the web executor is replaced by one whose executeStep can reject
ExecuteStepRejects ==
  /\ pc = "inStep"
  /\ Affordable(1)
  /\ faults' = faults + 1
  /\ lastStep' = [out |-> "raise", diag |-> "none", failedBefore |-> overallStats.failed]
  /\ scenarioResult' = ScenarioCatch(scenarioResult)
  /\ overallStats' = CaughtCounted(overallStats)
  /\ pc' = "endScenario"
  /\ UNCHANGED <<files, cache, now, edits, compiles, compiledText, config, featureFiles,
                 fi, testPlan, si, i, featureResult, results, browser, exitCode,
                 sessionLog, featureLog, lastCompile>>
  /\ UNCHANGED <<exec, migration, flight, draft, pending>>

\* the end of runScenario and the push of its result in runFeature
FinishScenario ==
  /\ \/ pc = "endScenario"
     \/ pc = "step" /\ i >= Len(testPlan.scenarios[si].steps)
  /\ featureResult' = [featureResult EXCEPT !.scenarios =
       Append(@, [scenarioResult EXCEPT !.status = StatusAfterLoop(@)])]
  /\ scenarioResult' = NoScenarioResult
  /\ si' = si + 1
  /\ pc' = IF si + 1 > Len(testPlan.scenarios) THEN "cleanup" ELSE "scenario"
  /\ UNCHANGED <<files, cache, now, edits, compiles, compiledText, config, featureFiles,
                 fi, testPlan, i, results, overallStats, browser, exitCode,
                 sessionLog, featureLog, lastCompile, lastStep, faults>>
  /\ UNCHANGED <<exec, migration, flight, draft, pending>>

\* what cleanup can do: browser.close() can raise, and then this.browser
\* is not reset
CleanupOutcomes(executor) ==
  IF executor = "web" /\ browser = "open" THEN {"ok", "raise"} ELSE {"ok"}

\* runFeature: executor.cleanup(), the feature's status and the push
Cleanup ==
  /\ pc = "cleanup"
  /\ \E out \in CleanupOutcomes(selectExecutor(testPlan.type)) :
       LET cost == IF out = "ok" THEN 0 ELSE 1
       IN  /\ Affordable(cost)
           /\ faults' = faults + cost
           /\ sessionLog' = Append(sessionLog, "cleanup")
           /\ browser' = IF selectExecutor(testPlan.type) = "web" /\ out = "ok"
                         THEN "null" ELSE browser
           /\ results' = IF out = "ok"
                         THEN Append(results, [featureResult EXCEPT
                                !.status = FeatureStatus(featureResult.scenarios)])
                         ELSE FeatureCatch(results, featureResult)
           /\ featureLog' = Append(featureLog, FeatureRecord(TRUE,
                IF out = "ok" THEN "none" ELSE "cleanup",
                Len(testPlan.scenarios), Append(sessionLog, "cleanup")))
  /\ featureResult' = NoFeatureResult
  /\ testPlan' = NullPlan
  /\ fi' = fi + 1
  /\ pc' = AfterFeature
  /\ UNCHANGED <<files, cache, now, edits, compiles, compiledText, config, featureFiles,
                 si, i, scenarioResult, overallStats, exitCode, lastCompile, lastStep>>
  /\ UNCHANGED <<exec, migration, flight, draft, pending>>

\* generateFinalReport and the exit of the run command: the exit status
\* comes from report.summary.failed, and is 1 when the report cannot be saved
Report ==
  /\ pc = "report"
  /\ \E out \in {"ok", "raise"} :
       LET cost == IF out = "ok" THEN 0 ELSE 1
       IN  /\ Affordable(cost)
           /\ faults' = faults + cost
           /\ exitCode' = IF out = "ok" THEN ExitCode(overallStats) ELSE 1
  /\ pc' = "done"
  /\ UNCHANGED <<files, cache, now, edits, compiles, compiledText, config, featureFiles,
                 fi, testPlan, si, i, scenarioResult, featureResult, results,
                 overallStats, browser, sessionLog, featureLog, lastCompile, lastStep>>
  /\ UNCHANGED <<exec, migration, flight, draft, pending>>

Next ==
  \/ StartSuite
  \/ Compile
  \/ Initialize
  \/ LaunchSettles
  \/ SessionSettles
  \/ BeginScenario
  \/ ExecuteStep
  \/ StepResolves
  \/ FinishScenario
  \/ Cleanup
  \/ Report

Spec == Init /\ [][Next]_vars

\* the same run with an executor whose executeStep can reject
RejectNext ==
  \/ StartSuite
  \/ Compile
  \/ Initialize
  \/ LaunchSettles
  \/ SessionSettles
  \/ BeginScenario
  \/ ExecuteStep
  \/ StepResolves
  \/ ExecuteStepRejects
  \/ FinishScenario
  \/ Cleanup
  \/ Report

RejectSpec == Init /\ [][RejectNext]_vars

(**************************** the cache over time **************************)
\* GherkinAgent instances of successive processes on one cache directory.
\* getCachedPlan and saveToCache touch the cache file of their path only, so
\* the history is that of one cache file: the one two feature files share.
CacheInit ==
  /\ Outside
  /\ Constructed
  /\ featureFiles = <<>>
  /\ pc = "agent"

\* the record of the call that awaited the oracle, once it has returned
Answered(seen, r) ==
  [seen EXCEPT !.raised = r.raised, !.plan = r.plan, !.at = now,
               !.reply = r.reply, !.saved = r.saved]

\* a parseAndPlan call starts outside a run: it returns or raises at once, or
\* it sends its request to the oracle and awaits the answer
Begun(path) ==
  /\ \E rand \in Draws(files[path]) :
       LET head == checkCache(path, rand)
       IN  IF head.returns
           THEN Compiled(path, head) /\ UNCHANGED pending
           ELSE /\ pending' = [path |-> path, content |-> files[path],
                               seen |-> CompileRecord(path, head)]
                /\ UNCHANGED <<cache, compiles, compiledText, lastCompile>>
  /\ UNCHANGED <<files, now, edits, config>>
  /\ UNCHANGED runVars
  /\ UNCHANGED <<exec, migration, flight, draft>>

\* the oracle's request is answered or fails: the call goes on with the
\* content it read when it started, and the cache directory as it is now
Ended(replies) ==
  /\ \E reply \in replies, rand \in Draws(pending.content) :
       LET r == interpretAndSave(pending.path, pending.content, reply, rand)
       IN  /\ cache' = r.cache
           /\ compiles' = compiles + 1
           /\ compiledText' = [compiledText EXCEPT ![pending.path] = pending.content]
           /\ lastCompile' = Answered(pending.seen, r)
  /\ pending' = NoPending
  /\ UNCHANGED <<files, now, edits, config>>
  /\ UNCHANGED runVars
  /\ UNCHANGED <<exec, migration, flight, draft>>

\* a parseAndPlan call on one of the files that share a cache file
AgentBegin ==
  /\ pc = "agent"
  /\ pending.path = "none"
  /\ compiles < MaxCompiles
  /\ \E path \in SharedPaths : Begun(path)

\* its request is answered
AgentEnd ==
  /\ pc = "agent"
  /\ pending.path # "none"
  /\ Ended(RunReplies)

\* the user edits a feature file
EditFile ==
  /\ pc = "agent"
  /\ edits < MaxEdits
  /\ \E path \in SharedPaths : \E text \in Texts \ {files[path]} :
       files' = [files EXCEPT ![path] = text]
  /\ edits' = edits + 1
  /\ UNCHANGED <<cache, now, compiles, compiledText, config, lastCompile>>
  /\ UNCHANGED runVars
  /\ UNCHANGED <<exec, migration, flight, draft, pending>>

\* time passes
Tick ==
  /\ pc = "agent"
  /\ \E t \in TimePoints : t > now /\ now' = t
  /\ UNCHANGED <<files, cache, edits, compiles, compiledText, config, lastCompile>>
  /\ UNCHANGED runVars
  /\ UNCHANGED <<exec, migration, flight, draft, pending>>

\* the next process is started with another configuration
Restart ==
  /\ pc = "agent"
  /\ pending.path = "none"
  /\ \E cfg \in Configs \ {config} : config' = cfg
  /\ UNCHANGED <<files, cache, now, edits, compiles, compiledText, lastCompile>>
  /\ UNCHANGED runVars
  /\ UNCHANGED <<exec, migration, flight, draft, pending>>

CacheNext ==
  \/ AgentBegin
  \/ AgentEnd
  \/ EditFile
  \/ Tick
  \/ Restart

CacheSpec == CacheInit /\ [][CacheNext]_vars

(**************************** the compiler *********************************)
\* parseAndPlan on one feature file, whatever the oracle does: the file holds
\* a payload, an outline, plain scenarios or no feature block. The call awaits
\* the oracle: the file, the clock and the cache directory can change
\* between its start and the answer
CompilePath == "a/login.feature"

CompileTexts == PayloadTexts \cup {"multi", "noFeature"}

CompileInit ==
  /\ \E text \in CompileTexts :
       files = [p \in Paths |-> IF p = CompilePath THEN text ELSE "single"]
  /\ cache = [c \in {Basename(p) : p \in Paths} |-> NoEntry]
  /\ now = 0
  /\ edits = 0
  /\ compiles = 0
  /\ compiledText = files
  /\ lastCompile = NoCompile
  /\ config \in Configs
  /\ Constructed
  /\ featureFiles = <<>>
  /\ pc = "agent"

\* a parseAndPlan call on the file starts
BeginCompile ==
  /\ pc = "agent"
  /\ pending.path = "none"
  /\ compiles < MaxCompiles
  /\ Begun(CompilePath)

\* its request is answered or fails
EndCompile ==
  /\ pc = "agent"
  /\ pending.path # "none"
  /\ Ended(OracleReplies)

CompileNext ==
  \/ BeginCompile
  \/ EndCompile
  \/ EditFile
  \/ Tick
  \/ Restart

CompileSpec == CompileInit /\ [][CompileNext]_vars

(**************************** one step of a plan ***************************)
\* the parts of a payload string: other text, a placeholder (one of them in
\* capitals), or a generated address
Parts == {"text", "<email>", "<EMAIL>", "<random_email>", "{{email}}"}

Address == "user@test.com"

Strings(maxLen) == UNION {[1..n -> Parts] : n \in 0..maxLen}

Items(form) == {[form |-> form, value |-> s] : s \in Strings(1) \ {<<>>}}

DataValues ==
  {NullData}
    \cup {[shape |-> "string", value |-> s, items |-> <<>>] : s \in Strings(MaxParts)}
    \cup {[shape |-> "list", value |-> <<>>, items |-> l] :
            l \in UNION {[1..n -> Items("string")] : n \in 1..MaxParts}}
    \cup {[shape |-> "map", value |-> <<>>, items |-> l] :
            l \in UNION {[1..n -> Items("string") \cup Items("value")] : n \in 1..MaxParts}}

\* const emailPatterns = [/<email>/gi, /<random_email>/gi, /\{\{email\}\}/gi]
emailPatterns == <<"<email>", "<random_email>", "{{email}}">>

\* the flag i of the patterns
IgnoreCase(part) == IF part = "<EMAIL>" THEN "<email>" ELSE part

\* pattern.test(value)
PatternTest(pattern, value) == \E n \in 1..Len(value) : IgnoreCase(value[n]) = pattern

\* value.replace(pattern, randomEmail), the pattern having the flag g
StringReplace(value, pattern, by) ==
  [n \in 1..Len(value) |-> IF IgnoreCase(value[n]) = pattern THEN by ELSE value[n]]

\* replacePlaceholder on a string in full: the first pattern of emailPatterns
\* that the value matches is replaced, and the result returned
replacePlaceholderString(value) ==
  LET found == {n \in 1..Len(emailPatterns) : PatternTest(emailPatterns[n], value)}
      first == CHOOSE n \in found : \A m \in found : n <= m
  IN  IF found = {} THEN value ELSE StringReplace(value, emailPatterns[first], Address)

\* the body of the forEach over the keys of step.data: an object with a
\* value gets its value replaced, a string is replaced
replaceField(field) ==
  IF field.form = "value"
  THEN IF field.value # <<>> THEN [field EXCEPT !.value = replacePlaceholderString(@)]
       ELSE field
  ELSE [field EXCEPT !.value = replacePlaceholderString(@)]

\* processDynamicPlaceholders, the body for one step: step.data after it
processStepData(data) ==
  CASE data.shape = "null" -> data
    [] data.shape = "string" ->
         IF data.value = <<>> THEN data
         ELSE [data EXCEPT !.value = replacePlaceholderString(@)]
    [] OTHER -> [data EXCEPT !.items = [n \in 1..Len(data.items) |-> replaceField(data.items[n])]]

\* step.keyword of a Gherkin step
Keywords == {"Given", "When", "Then", "And", "But"}

\* the words guessAction looks for in the lower-cased text of a step
Markers == {"navig", "visit", "open", "click", "press", "type", "enter", "fill", "select"}

\* the text of a step, as the markers it includes (at most two)
StepTexts == {t \in SUBSET Markers : Cardinality(t) <= 2}

\* lowerText.includes(a) || lowerText.includes(b) || ...
Includes(text, words) == text \cap words # {}

guessAction(keyword, text) ==
  CASE keyword = "Given" ->
         IF Includes(text, {"navig", "visit", "open"}) THEN "navigate" ELSE "setup"
    [] keyword = "When" ->
         IF Includes(text, {"click", "press"}) THEN "click"
         ELSE IF Includes(text, {"type", "enter", "fill"}) THEN "type"
         ELSE IF Includes(text, {"select"}) THEN "select"
         ELSE "action"
    [] keyword = "Then" -> "validate"
    [] OTHER -> "action"

\* the action of a step in a reply that follows the prompt:
\* "action": "navigate|click|type|select|validate"
PromptActions == {"navigate", "click", "type", "select", "validate"}

DraftUnchanged ==
  /\ UNCHANGED <<files, cache, now, edits, compiles, compiledText, config, lastCompile>>
  /\ UNCHANGED runVars
  /\ UNCHANGED <<exec, migration, flight, pending>>

\* interpretWithAI for one step: the action of the reply, or of
\* basicInterpretation when the request fails
InterpretStep ==
  /\ pc = "draft"
  /\ draft.pc = "step"
  /\ \E reply \in PromptActions \cup {"fail"} :
       draft' = [draft EXCEPT
         !.reply = reply,
         !.action = IF reply = "fail" THEN guessAction(draft.keyword, draft.text) ELSE reply,
         !.pc = "interpreted"]
  /\ DraftUnchanged

\* processDynamicPlaceholders for one step of the plan
SubstituteStep ==
  /\ pc = "draft"
  /\ draft.pc = "payload"
  /\ draft' = [draft EXCEPT !.data = processStepData(@), !.pc = "planned"]
  /\ DraftUnchanged

\* a Gherkin step of the document comes up for interpretation
ReadStep ==
  /\ pc = "draft"
  /\ draft.pc = "none"
  /\ \E keyword \in Keywords, text \in StepTexts :
       draft' = [NoDraft EXCEPT !.pc = "step", !.keyword = keyword, !.text = text]
  /\ DraftUnchanged

\* a step of the plan, with the payload it was given, comes up for
\* processDynamicPlaceholders
ReadPayload ==
  /\ pc = "draft"
  /\ draft.pc = "none"
  /\ \E data \in DataValues :
       draft' = [NoDraft EXCEPT !.pc = "payload", !.data = data, !.source = data]
  /\ DraftUnchanged

DraftInit ==
  /\ Outside
  /\ files["cart.feature"] = "empty"
  /\ config = [enableCache |-> TRUE, forceRegenerate |-> FALSE]
  /\ Constructed
  /\ featureFiles = <<>>
  /\ pc = "draft"

DraftNext ==
  \/ ReadStep
  \/ InterpretStep
  \/ ReadPayload
  \/ SubstituteStep

DraftSpec == DraftInit /\ [][DraftNext]_vars

(**************************** a damaged cache directory ********************)
\* what the cache file of the feature can hold when it was not written by
\* saveToCache: text that is not JSON, nothing that can be opened, or a JSON
\* entry for the current text of the feature whose plan has no scenarios
DamagedEntries(content) ==
  {[contentHash |-> "garbled", timestamp |-> now, plan |-> NullPlan],
   [contentHash |-> "locked", timestamp |-> now, plan |-> NullPlan],
   [contentHash |-> generateHash(content), timestamp |-> now,
    plan |-> [source |-> "damaged", type |-> "undefined", wellFormed |-> FALSE,
              scenarios |-> <<>>]]}

\* the cache file of the feature is damaged outside the process
DamageCache ==
  /\ pc = "agent"
  /\ edits < MaxEdits
  /\ \E entry \in DamagedEntries(files[CompilePath]) :
       cache' = [cache EXCEPT ![getCacheFilePath(CompilePath)] = entry]
  /\ edits' = edits + 1
  /\ UNCHANGED <<files, now, compiles, compiledText, config, lastCompile>>
  /\ UNCHANGED runVars
  /\ UNCHANGED <<exec, migration, flight, draft, pending>>

\* `qa-agents cache --clear`
ClearCache ==
  /\ pc = "agent"
  /\ \E raises \in BOOLEAN : cache' = clearCache(raises)
  /\ UNCHANGED <<files, now, edits, compiles, compiledText, config, lastCompile>>
  /\ UNCHANGED runVars
  /\ UNCHANGED <<exec, migration, flight, draft, pending>>

DamageNext ==
  \/ BeginCompile
  \/ EndCompile
  \/ DamageCache
  \/ ClearCache
  \/ EditFile
  \/ Restart

DamageSpec == CompileInit /\ [][DamageNext]_vars

(**************************** WebExecutorAgent ****************************)
\* const maxRetries = 5
maxRetries == 5

\* step.action: the eight cases of the switch of executeStep, and 'setup',
\* an action for which the switch has no case
StepActions == {"navigate", "click", "type", "select", "validate", "wait", "hover",
                "scroll", "setup"}

\* step.validation of a validate step: missing, or of type exists, equals,
\* contains, or of a type validate has no case for
Validations == {"missing", "exists", "equals", "contains", "visible"}

\* step.data of a type step: a data table (object) or one value
Forms == {"table", "single"}

\* what the page holds during the step: an element for the selector the
\* vision oracle proposes (primary), for one of the text alternatives (alt),
\* for a generic button, field pattern or generic dropdown selector (generic)
Pages == [primary : BOOLEAN, alt : BOOLEAN, generic : BOOLEAN]

\* the content of the oracle's answer for click, type, select: JSON with a
\* selector, with a text selector (:has-text or text=), JSON without selector
\* or fields, JSON with a selector inside a markdown fence, content that is
\* not JSON, or the request raising
VisionReplies == {"plain", "text", "none", "fenced", "invalid", "unreachable"}

\* "confidence": "high|medium|low" of the answer
Confidences == {"high", "low"}

\* "reasoning" of the answer, free text
Reasonings == {"because", "guess"}

\* the answer for validate
ValidateReplies == {"found", "notFound", "invalid", "unreachable"}

\* one round of the text search: isVisible() true, false, or raising
DomChecks == {"visible", "hidden", "raise"}

\* the Act phase: `stops` is the place, in the primitives called on the
\* element, of the one that raises (0: none raises); `js` says the JavaScript
\* click works; `native` that the dropdown is a <select>; `option` that one of
\* the option patterns of a custom dropdown is visible and clicked
ActOutcomes == [stops : 0..4, js : BOOLEAN, native : BOOLEAN, option : BOOLEAN]

\* step.data || step.selector of a navigate step: nothing, a full URL, a path
\* starting with '/', or free text
Payloads == {"empty", "url", "path", "text"}

\* a base URL given or not, on the command line (--url) and in WEB_APP_URL
UrlOptions == {"unset", "cli"}
UrlEnvs == {"unset", "env"}

\* the run command: if (options.url) process.env.WEB_APP_URL = options.url
WebAppUrl(optionUrl, envUrl) == IF optionUrl # "unset" THEN optionUrl ELSE envUrl

\* navigate: the URL built from the payload and WEB_APP_URL; "undefined" when
\* none comes out
navigateUrl(urlOrPath, webAppUrl) ==
  CASE urlOrPath = "empty" -> IF webAppUrl = "unset" THEN "undefined" ELSE webAppUrl
    [] urlOrPath = "url"   -> "payload"
    [] urlOrPath = "path"  -> IF webAppUrl = "unset" THEN "localhost:4200/path"
                              ELSE "origin/path"
    [] urlOrPath = "text"  -> IF webAppUrl = "unset" THEN "undefined" ELSE webAppUrl

\* the markdown fence is unwrapped before JSON.parse
parseVision(reply) == IF reply = "fenced" THEN "plain" ELSE reply

\* executeActionWithVision rethrows what the request or JSON.parse raises
VisionRaises(reply) == reply \in {"invalid", "unreachable"}

\* a plausible slip: a selector of low confidence is not tried
clickLocate_ConfidenceGated(visionResult, page) ==
  LET try == [element |-> IF visionResult.confidence = "low" THEN "null" ELSE "primary",
              located |-> page.primary /\ visionResult.selector # "none"
                            /\ visionResult.confidence # "low",
              finalSelector |-> IF visionResult.selector = "none" THEN "" ELSE "primary",
              tried |-> IF visionResult.confidence = "low" THEN {} ELSE {"primary"}]
      strategy2 ==
        IF try.element = "null"
        THEN [element |-> IF page.generic THEN "generic" ELSE "null",
              located |-> page.generic,
              finalSelector |-> IF page.generic THEN "generic" ELSE try.finalSelector,
              tried |-> try.tried \cup {"generic"}]
        ELSE try
  IN  IF try.located
      THEN [loc |-> try, raised |-> FALSE, skipped |-> FALSE, origin |-> "locate"]
      ELSE [loc |-> strategy2, raised |-> strategy2.element = "null", skipped |-> FALSE, origin |-> "locate"]

\* the Locate phase of click. `element` is assigned the locator before
\* waitFor is awaited, so it is not null once a selector has been tried;
\* a locator built from a missing selector matches nothing
clickLocate(visionResult, page) ==
  LET selector == visionResult.selector
      try == [element |-> "primary", located |-> page.primary /\ selector # "none",
              finalSelector |-> IF selector = "none" THEN "" ELSE "primary",
              tried |-> {"primary"}]
      strategy1 ==
        IF selector = "text"
        THEN [element |-> "alt", located |-> page.alt,
              finalSelector |-> IF page.alt THEN "alt" ELSE try.finalSelector,
              tried |-> try.tried \cup {"alt"}]
        ELSE try
      strategy2 ==
        IF strategy1.element = "null"
        THEN [element |-> IF page.generic THEN "generic" ELSE "null",
              located |-> page.generic,
              finalSelector |-> IF page.generic THEN "generic" ELSE strategy1.finalSelector,
              tried |-> strategy1.tried \cup {"generic"}]
        ELSE strategy1
  IN  IF try.located
      THEN [loc |-> try, raised |-> FALSE, skipped |-> FALSE, origin |-> "locate"]
      ELSE [loc |-> strategy2, raised |-> strategy2.element = "null", skipped |-> FALSE, origin |-> "locate"]

\* the Locate phase of type for one field: the selector of the oracle, then
\* the field patterns; in the single-value form fields[0].selector only
typeLocate(form, visionResult, page) ==
  LET selector == visionResult.selector
      try == [element |-> "primary", located |-> page.primary,
              finalSelector |-> "primary", tried |-> {"primary"}]
      patterns == [element |-> "generic", located |-> page.generic,
                   finalSelector |-> "generic", tried |-> {"primary", "generic"}]
      none == [element |-> "null", located |-> FALSE, finalSelector |-> "none", tried |-> {}]
  IN  IF form = "single"
      THEN IF selector = "none"
           THEN [loc |-> none, raised |-> TRUE, skipped |-> FALSE, origin |-> "reply"]
           ELSE [loc |-> try, raised |-> ~try.located, skipped |-> FALSE, origin |-> "locate"]
      ELSE IF selector = "none"
           THEN [loc |-> none, raised |-> FALSE, skipped |-> TRUE, origin |-> "locate"]
           ELSE IF try.located
                THEN [loc |-> try, raised |-> FALSE, skipped |-> FALSE, origin |-> "locate"]
                ELSE [loc |-> patterns, raised |-> patterns.element = "null", skipped |-> FALSE, origin |-> "locate"]

\* the Locate phase of select: the dropdownSelector of the oracle, then the
\* generic dropdown selectors
selectLocate(visionResult, page) ==
  LET selector == visionResult.selector
      try == [element |-> "primary", located |-> page.primary /\ selector # "none",
              finalSelector |-> "primary", tried |-> {"primary"}]
      generic == [element |-> "generic", located |-> page.generic,
                  finalSelector |-> "generic", tried |-> {"primary", "generic"}]
  IN  IF try.located
      THEN [loc |-> try, raised |-> FALSE, skipped |-> FALSE, origin |-> "locate"]
      ELSE [loc |-> generic, raised |-> generic.element = "null", skipped |-> FALSE, origin |-> "locate"]

Locate(action, form, visionResult, page) ==
  CASE action = "click"  -> clickLocate(visionResult, page)
    [] action = "type"   -> typeLocate(form, visionResult, page)
    [] action = "select" -> selectLocate(visionResult, page)

\* one execution attempt of the Act phase
Attempt(kind, raised) == [kind |-> kind, raised |-> raised]

\* the primitives the Act phase calls on `element`, in the order of the code;
\* on a dropdown that is not a <select>, select clicks the trigger
ActPrimitives(action, native) ==
  CASE action = "click"  -> <<"waitFor", "scroll", "click">>
    [] action = "type"   -> <<"scroll", "click", "fill", "type">>
    [] action = "select" -> IF native THEN <<"scroll", "evaluate", "selectOption">>
                            ELSE <<"scroll", "evaluate", "click">>

\* the primitives called when the one at place `stops` raises: no later one
Called(primitives, stops) ==
  {primitives[n] : n \in 1..(IF stops = 0 THEN Len(primitives) ELSE stops)}

\* the outcomes the Act phase of an action can have. A primitive called on a
\* locator that matches nothing times out, the JavaScript click too.
ActCases(action, present) ==
  {out \in ActOutcomes :
     /\ out.stops <= Len(ActPrimitives(action, out.native))
     /\ ~present => (out.stops = 1 /\ ~out.js)
     /\ (present /\ (action # "click" \/ out.stops = 0)) => out.js
     /\ (action # "select" \/ out.stops \in {1, 2}) => out.native
     /\ (action # "select" \/ out.native \/ out.stops # 0) => out.option}

\* a plausible slip: the JavaScript click runs whatever the normal click did
clickAct_AlwaysDom(out) ==
  [primitives |-> Called(ActPrimitives("click", TRUE), out.stops) \cup {"jsClick"},
   searched |-> {},
   raised |-> out.stops # 0 /\ ~out.js,
   attempts |-> <<Attempt("interactive", out.stops # 0),
                  Attempt("dom", out.stops # 0 /\ ~out.js)>>]

\* the Act phase of click: waitFor visible, scrollIntoViewIfNeeded and click in
\* one try; in its catch the JavaScript click, whose failure is raised
clickAct(out) ==
  IF out.stops = 0
  THEN [primitives |-> Called(ActPrimitives("click", TRUE), 0), searched |-> {},
        raised |-> FALSE, attempts |-> <<Attempt("interactive", FALSE)>>]
  ELSE [primitives |-> Called(ActPrimitives("click", TRUE), out.stops) \cup {"jsClick"},
        searched |-> {}, raised |-> ~out.js,
        attempts |-> <<Attempt("interactive", TRUE), Attempt("dom", ~out.js)>>]

\* the Act phase of type on one field: scrollIntoViewIfNeeded, click, fill('')
\* and type, the first that raises ending the step
typeAct(out) ==
  [primitives |-> Called(ActPrimitives("type", TRUE), out.stops), searched |-> {},
   raised |-> out.stops # 0,
   attempts |-> <<Attempt("interactive", out.stops # 0)>>]

\* the Act phase of select: scrollIntoViewIfNeeded and the tag name of the
\* trigger; selectOption on a <select>; on another element a click that opens
\* it and the search of the option patterns, which raises when none of them
\* is visible and clicked
selectAct(out) ==
  LET opened == ~out.native /\ out.stops = 0
  IN  [primitives |-> Called(ActPrimitives("select", out.native), out.stops),
       searched |-> IF opened THEN {"option"} ELSE {},
       raised |-> out.stops # 0 \/ (opened /\ ~out.option),
       attempts |-> <<Attempt("interactive", out.stops # 0 \/ (opened /\ ~out.option))>>]

\* the Act phase: the primitives called on `element`, the other locators it
\* searched, and whether it raises
Act(action, out) ==
  CASE action = "click"  -> clickAct(out)
    [] action = "type"   -> typeAct(out)
    [] action = "select" -> selectAct(out)

\* the primitives of the branch without vision of click, type, select
StaticPrimitives(action) ==
  CASE action = "click"  -> <<"waitFor", "click">>
    [] action = "type"   -> <<"fill">>
    [] action = "select" -> <<"selectOption">>

\* the branch without vision of click, type, select: the step's selector or
\* a selector built from its data, and the primitives up to one that raises
staticAct(action, hasSelector, stops) ==
  [primitives |-> Called(StaticPrimitives(action), stops),
   finalSelector |-> CASE action = "click"  -> IF hasSelector THEN "step" ELSE "fromData"
                       [] action = "type"   -> IF hasSelector THEN "step" ELSE "input"
                       [] action = "select" -> "select",
   raised |-> stops # 0,
   attempts |-> <<Attempt("interactive", stops # 0)>>]

\* while (!found && retryCount < maxRetries)
RetryLoop(found, retryCount) == ~found /\ retryCount < maxRetries

\* if (!found && this.useVision)
AsksVision(found, useVision) == ~found /\ useVision

\* a plausible slip: the branch with vision taken whatever USE_VISION says
VisionPath_Always(useVision) == TRUE

\* if (this.useVision) in click, type, select
VisionPath(useVision) == useVision

ExecUnchanged ==
  /\ UNCHANGED <<files, cache, now, edits, compiles, compiledText, config, lastCompile>>
  /\ UNCHANGED runVars
  /\ UNCHANGED <<migration, flight, draft, pending>>

\* the position after the switch on step.action
Dispatch(action, useVision) ==
  CASE action = "navigate" -> "navigate"
    [] action = "validate" -> "validate"
    [] action \in {"click", "type", "select"} ->
         IF VisionPath(useVision) THEN "resolve" ELSE "static"
    [] action \in {"wait", "hover", "scroll"} -> "simple"
    [] OTHER -> "generic"

\* executeStep is called with a step: the switch on step.action
BeginStep ==
  /\ pc = "executor"
  /\ exec.pc = "idle"
  /\ \E action \in StepActions, form \in Forms, page \in Pages, useVision \in BOOLEAN,
        payload \in Payloads, optionUrl \in UrlOptions, envUrl \in UrlEnvs,
        validation \in Validations :
       /\ action # "type" => form = "table"
       /\ action \notin {"click", "type", "select"} \/ ~useVision => page = NoPage
       /\ action \in {"navigate", "wait", "hover", "scroll", "setup"} => useVision
       /\ action # "navigate" => (payload = "empty" /\ optionUrl = "unset" /\ envUrl = "unset")
       /\ action # "validate" => validation = "missing"
       /\ exec' = [NoExec EXCEPT !.action = action, !.form = form, !.page = page,
                                 !.useVision = useVision, !.validation = validation,
                                 !.payload = IF action = "navigate" THEN payload ELSE "none",
                                 !.webAppUrl = WebAppUrl(optionUrl, envUrl),
                                 !.pc = Dispatch(action, useVision)]
  /\ ExecUnchanged

\* navigate: the URL, the throw when there is none, page.goto
Navigate ==
  /\ pc = "executor"
  /\ exec.pc = "navigate"
  /\ \E out \in {"ok", "raise"} :
       LET fullUrl == navigateUrl(exec.payload, exec.webAppUrl)
       IN  /\ fullUrl = "undefined" => out = "ok"
           /\ exec' = [exec EXCEPT
                 !.finalSelector = fullUrl,
                 !.primitives = IF fullUrl = "undefined" THEN {} ELSE {"goto"},
                 !.error = IF fullUrl = "undefined" THEN "noUrl"
                           ELSE IF out = "raise" THEN "act" ELSE "none",
                 !.pc = "finish"]
  /\ ExecUnchanged

\* what a page.screenshot() call can do
Shots == {"ok", "raise"}

\* executeActionWithVision takes its screenshot before the request and
\* rethrows what it raises: no request is sent
ShotRaised(e) == [e EXCEPT !.visionShot = "raise", !.error = "screenshot", !.pc = "finish"]

\* click, type, select: executeActionWithVision
Resolve ==
  /\ pc = "executor"
  /\ exec.pc = "resolve"
  /\ \E shot \in Shots, reply \in VisionReplies, confidence \in Confidences,
        reasoning \in Reasonings :
       /\ VisionRaises(reply) => (confidence = "high" /\ reasoning = "because")
       /\ shot = "raise" => reply = "unreachable"
       /\ exec' = IF shot = "raise" THEN ShotRaised(exec)
                  ELSE [exec EXCEPT
                         !.visionShot = shot,
                         !.oracleCalls = @ + 1, !.vision = parseVision(reply),
                         !.confidence = IF VisionRaises(reply) THEN "none" ELSE confidence,
                         !.reasoning = IF VisionRaises(reply) THEN "none" ELSE reasoning,
                         !.error = IF VisionRaises(reply) THEN "oracle" ELSE "none",
                         !.pc = IF VisionRaises(reply) THEN "finish" ELSE "locate"]
  /\ ExecUnchanged

\* the object executeActionWithVision returned
visionResultOf(e) ==
  [selector |-> e.vision, confidence |-> e.confidence, reasoning |-> e.reasoning]

\* the executor after the Locate phase
Located(e) ==
  LET l == Locate(e.action, e.form, visionResultOf(e), e.page)
  IN  [e EXCEPT !.element = l.loc.element, !.located = l.loc.located,
                !.finalSelector = l.loc.finalSelector, !.tried = l.loc.tried,
                !.error = IF l.raised THEN l.origin ELSE "none",
                !.pc = IF l.raised \/ l.skipped THEN "finish" ELSE "act"]

\* click, type, select: the Locate phase
LocateElement ==
  /\ pc = "executor"
  /\ exec.pc = "locate"
  /\ exec' = Located(exec)
  /\ ExecUnchanged

\* the page can change while the step runs: an element for the locator held
\* in `element`, not attached when Locate waited for it, can be there when
\* the Act phase waits for it; a locator built from a missing selector never
\* matches
Appearances(e) ==
  IF e.located \/ (e.element = "primary" /\ e.vision = "none") THEN {FALSE} ELSE BOOLEAN

\* the executor after the Act phase
Acted(e, appears, out) ==
  LET a == Act(e.action, out)
  IN  [e EXCEPT !.present = e.located \/ appears,
                !.primitives = a.primitives, !.attempts = a.attempts,
                !.tried = @ \cup a.searched,
                !.error = IF a.raised THEN "act" ELSE "none",
                !.pc = "finish"]

\* click, type, select: the Act phase
ActOnElement ==
  /\ pc = "executor"
  /\ exec.pc = "act"
  /\ \E appears \in Appearances(exec) :
       \E out \in ActCases(exec.action, exec.located \/ appears) :
         exec' = Acted(exec, appears, out)
  /\ ExecUnchanged

\* click, type, select without vision
StaticAction ==
  /\ pc = "executor"
  /\ exec.pc = "static"
  /\ \E hasSelector \in BOOLEAN, stops \in 0..Len(StaticPrimitives(exec.action)) :
       LET a == staticAct(exec.action, hasSelector, stops)
       IN  exec' = [exec EXCEPT !.primitives = a.primitives, !.attempts = a.attempts,
                                !.finalSelector = a.finalSelector,
                                !.error = IF a.raised THEN "act" ELSE "none",
                                !.pc = "finish"]
  /\ ExecUnchanged

\* the position after the head of validate and its switch on validation.type
validateDispatch(validation) ==
  CASE validation = "missing" -> "finish"
    [] validation = "exists" -> "dom"
    [] validation \in {"equals", "contains"} -> "compare"
    [] OTHER -> "finish"

\* validate: the throw for a step without validation, the waits, the switch
\* on validation.type, which has no default case
Validate ==
  /\ pc = "executor"
  /\ exec.pc = "validate"
  /\ exec' = [exec EXCEPT
       !.error = IF exec.validation = "missing" THEN "noValidation" ELSE "none",
       !.pc = validateDispatch(exec.validation)]
  /\ ExecUnchanged

\* validate, types 'equals' and 'contains': the text read from the page is
\* compared with validation.expected
Compare ==
  /\ pc = "executor"
  /\ exec.pc = "compare"
  /\ \E actual \in {"asExpected", "different"} :
       exec' = [exec EXCEPT !.found = actual = "asExpected",
                            !.error = IF actual = "asExpected" THEN "none" ELSE "validation",
                            !.pc = "finish"]
  /\ ExecUnchanged

\* a plausible slip: an action without a case is an error
genericAction_Throws(action) == [result |-> "none", raised |-> TRUE]

\* genericAction: a warning, and { result: 'skipped' }
genericAction(action) == [result |-> "skipped", raised |-> FALSE]

\* the default case of the switch of executeStep
GenericAction ==
  /\ pc = "executor"
  /\ exec.pc = "generic"
  /\ exec' = [exec EXCEPT
       !.error = IF genericAction(exec.action).raised THEN "act" ELSE "none",
       !.pc = "finish"]
  /\ ExecUnchanged

\* wait, hover, scroll: one call on the page, which for hover and scroll
\* raises when the selector matches nothing
SimpleAction ==
  /\ pc = "executor"
  /\ exec.pc = "simple"
  /\ \E out \in {"ok", "fail"} :
       /\ exec.action = "wait" => out = "ok"
       /\ exec' = [exec EXCEPT
            !.primitives = CASE exec.action = "wait"   -> {"waitForTimeout"}
                             [] exec.action = "hover"  -> {"hover"}
                             [] exec.action = "scroll" -> {"scroll"},
            !.error = IF out = "ok" THEN "none" ELSE "act",
            !.pc = "finish"]
  /\ ExecUnchanged

\* validate, type 'exists': one round of the text search
DomRound ==
  /\ pc = "executor"
  /\ exec.pc = "dom"
  /\ RetryLoop(exec.found, exec.retryCount)
  /\ \E check \in DomChecks :
       exec' = [exec EXCEPT !.rounds = @ + 1,
                            !.found = check = "visible",
                            !.domFound = check = "visible",
                            !.retryCount = IF check = "visible" THEN @ ELSE @ + 1]
  /\ ExecUnchanged

\* validate: the vision oracle after the loop
AskVision ==
  /\ pc = "executor"
  /\ exec.pc = "dom"
  /\ ~RetryLoop(exec.found, exec.retryCount)
  /\ AsksVision(exec.found, exec.useVision)
  /\ \E shot \in Shots, reply \in ValidateReplies :
       /\ shot = "raise" => reply = "unreachable"
       /\ exec' = IF shot = "raise" THEN ShotRaised(exec)
                  ELSE [exec EXCEPT
                         !.visionShot = shot,
                         !.oracleCalls = @ + 1, !.vision = reply,
                         !.found = IF reply = "found" THEN TRUE ELSE @,
                         !.error = IF VisionRaises(reply) THEN "oracle"
                                   ELSE IF reply = "found" \/ exec.found THEN "none"
                                   ELSE "validation",
                         !.pc = "finish"]
  /\ ExecUnchanged

\* validate: no vision oracle, if (!found) throw
Conclude ==
  /\ pc = "executor"
  /\ exec.pc = "dom"
  /\ ~RetryLoop(exec.found, exec.retryCount)
  /\ ~AsksVision(exec.found, exec.useVision)
  /\ exec' = [exec EXCEPT !.error = IF exec.found THEN "none" ELSE "validation",
                          !.pc = "finish"]
  /\ ExecUnchanged

\* the two page.screenshot() calls of executeStep: the one of the successful
\* step raises or not (Shots), the one of the catch gives an image or null
ErrorShots == {"image", "null"}

\* the executor after executeStep built its result: the successful one with
\* the screenshot and the action's fields, or the one of the catch with the
\* error, the screenshot or null, and collectDiagnostics()
Finished(e, shot, errorShot) ==
  LET ok == e.error = "none" /\ shot = "ok"
  IN  [e EXCEPT
        !.error = IF e.error = "none" /\ shot = "raise" THEN "screenshot" ELSE @,
        !.result = [success |-> ok,
                    clicked |-> IF e.action = "click" /\ ok THEN e.finalSelector ELSE "none",
                    navigated |-> IF e.action = "navigate" /\ ok THEN e.finalSelector ELSE "none",
                    validated |-> e.action = "validate" /\ ok,
                    result |-> IF Dispatch(e.action, e.useVision) = "generic" /\ ok
                               THEN genericAction(e.action).result ELSE "none",
                    screenshot |-> IF ok THEN "image" ELSE errorShot,
                    diagnostics |-> ~ok],
        !.pc = "done"]

\* executeStep after the action: the screenshot and the step result, or the
\* catch and the unsuccessful result
FinishStep ==
  /\ pc = "executor"
  /\ exec.pc = "finish"
  /\ \E shot \in Shots, errorShot \in ErrorShots :
       /\ exec.error # "none" => shot = "ok"
       /\ (exec.error = "none" /\ shot = "ok") => errorShot = "image"
       /\ exec' = Finished(exec, shot, errorShot)
  /\ ExecUnchanged

\* the caller of executeStep has taken the step result: the executor holds
\* nothing of the step when the next one is executed
NextStep ==
  /\ pc = "executor"
  /\ exec.pc = "done"
  /\ exec' = NoExec
  /\ ExecUnchanged

\* the executors one move of Locate, Act or the result can lead to
ExecSuccessors(e) ==
  CASE e.pc = "locate" -> {Located(e)}
    [] e.pc = "act"    -> UNION {{Acted(e, appears, out) :
                                    out \in ActCases(e.action, e.located \/ appears)} :
                                  appears \in Appearances(e)}
    [] e.pc = "finish" -> {Finished(e, shot, errorShot) : shot \in Shots, errorShot \in ErrorShots}
    [] OTHER -> {}

ExecInit ==
  /\ Outside
  /\ Constructed
  /\ featureFiles = <<>>
  /\ pc = "executor"

ExecNext ==
  \/ BeginStep
  \/ Navigate
  \/ Resolve
  \/ LocateElement
  \/ ActOnElement
  \/ StaticAction
  \/ SimpleAction
  \/ GenericAction
  \/ Validate
  \/ Compare
  \/ DomRound
  \/ AskVision
  \/ Conclude
  \/ FinishStep
  \/ NextStep

ExecSpec == ExecInit /\ [][ExecNext]_vars

(**************************** ReverseEngineerAgent *************************)
\* crypto.createHash('sha256').update(content).digest('hex')
calculateFileHash(content) ==
  CASE content = "v1" -> "3c9d1a"
    [] content = "v2" -> "f08e57"

\* a plausible slip: a file with a cache entry is skipped whatever its hash
needsProcessing_NoHashCheck(forceRegeneration, cacheEntry, currentHash) ==
  forceRegeneration \/ cacheEntry = "absent"

\* needsProcessing: force, no entry under the basename, or another hash
needsProcessing(forceRegeneration, cacheEntry, currentHash) ==
  \/ forceRegeneration
  \/ cacheEntry = "absent"
  \/ currentHash # cacheEntry

\* the replies of the oracle to inferGherkinFeature: a feature, or a failure
\* answered by basicConversion
InferReplies == {"feature", "fail"}

MigrateUnchanged ==
  /\ UNCHANGED <<files, cache, now, edits, compiles, compiledText, config, lastCompile>>
  /\ UNCHANGED runVars
  /\ UNCHANGED <<exec, flight, draft, pending>>

\* processFile up to the check: the cache given by processDirectory or loaded
\* from disk, needsProcessing, and the return of [] for a skipped file
ProcessFile ==
  /\ pc = "migrate"
  /\ migration.pc = "idle"
  /\ migration.calls < MaxCompiles
  /\ \E path \in MigratePaths, given \in BOOLEAN :
       LET loaded == IF given THEN migration.loadedCache ELSE migration.disk
           entry == loaded[MigrateBasename(path)]
           currentHash == calculateFileHash(migration.src[path])
           needed == needsProcessing(migration.force, entry, currentHash)
           call == [NoMigrated EXCEPT !.path = path, !.force = migration.force,
                                      !.found = entry, !.hashAtCheck = currentHash,
                                      !.skipped = ~needed]
       IN  migration' = [migration EXCEPT
             !.loadedCache = loaded, !.calls = @ + 1, !.last = call,
             !.file = IF needed THEN path ELSE "none",
             !.read = IF needed THEN migration.src[path] ELSE "none",
             !.pc = IF needed THEN "parsed" ELSE "idle"]
  /\ MigrateUnchanged

\* inferGherkinFeature: one request to the oracle, basicConversion in its catch
InferFeature ==
  /\ pc = "migrate"
  /\ migration.pc = "parsed"
  /\ \E reply \in InferReplies :
       migration' = [migration EXCEPT !.last.oracle = TRUE, !.last.reply = reply,
                                      !.pc = "inferred"]
  /\ MigrateUnchanged

\* writeGherkinFiles and updateCache with saveCache, or processFile raising
\* what writeGherkinFiles raised
WriteAndUpdate ==
  /\ pc = "migrate"
  /\ migration.pc = "inferred"
  /\ \E wrote \in {"ok", "raise"}, saved \in BOOLEAN :
       LET base == MigrateBasename(migration.file)
           hash == calculateFileHash(migration.src[migration.file])
       IN  /\ wrote = "raise" => ~saved
           /\ migration' =
                IF wrote = "raise"
                THEN [migration EXCEPT !.last.raised = TRUE, !.pc = "idle",
                                       !.file = "none", !.read = "none"]
                ELSE [migration EXCEPT
                        !.loadedCache[base] = hash,
                        !.disk = IF saved THEN [migration.loadedCache EXCEPT ![base] = hash]
                                 ELSE @,
                        !.last.written = TRUE, !.last.hashAtUpdate = hash,
                        !.last.saved = saved,
                        !.pc = "idle", !.file = "none", !.read = "none"]
  /\ MigrateUnchanged

\* a Playwright file is edited, at any moment
EditSource ==
  /\ pc = "migrate"
  /\ migration.edits < MaxEdits
  /\ \E path \in MigratePaths : \E text \in MigrateTexts \ {migration.src[path]} :
       migration' = [migration EXCEPT !.src[path] = text, !.edits = @ + 1]
  /\ MigrateUnchanged

\* the next `migrate` process: new ReverseEngineerAgent({forceRegeneration})
NewAgent ==
  /\ pc = "migrate"
  /\ migration.pc = "idle"
  /\ \E force \in BOOLEAN \ {migration.force} :
       migration' = [migration EXCEPT !.force = force]
  /\ MigrateUnchanged

MigrateInit ==
  /\ Outside
  /\ files["cart.feature"] = "empty"
  /\ config = [enableCache |-> TRUE, forceRegenerate |-> FALSE]
  /\ Constructed
  /\ featureFiles = <<>>
  /\ pc = "migrate"

MigrateNext ==
  \/ ProcessFile
  \/ InferFeature
  \/ WriteAndUpdate
  \/ EditSource
  \/ NewAgent

MigrateSpec == MigrateInit /\ [][MigrateNext]_vars

(**************************** the order of the calls ***********************)
\* an asynchronous call of the run: its method and the feature, scenario and
\* step it is for (0 where it has none)
Op(kind, f, s, k) == [kind |-> kind, f |-> f, s |-> s, k |-> k]

\* a plausible slip: analyzeFailed called without await
Awaited_NotAnalysis(kind) == kind # "analyzeFailed"

\* every call of runTestSuite, runFeature and runScenario is awaited
Awaited(kind) == TRUE

FlightUnchanged ==
  /\ UNCHANGED <<files, cache, now, edits, compiles, compiledText, config, lastCompile>>
  /\ UNCHANGED runVars
  /\ UNCHANGED <<exec, migration, draft, pending>>

\* the operations still running once `done` has returned
Without(running, done) == running \ done

\* runTestSuite(featureFiles): nf features, each with ns scenarios of nk steps
RunSuite ==
  /\ pc = "flight"
  /\ flight.pc = "idle"
  /\ \E nf \in 1..MaxFeatures, ns \in 0..MaxScenarios, nk \in 1..MaxSteps :
       flight' = [flight EXCEPT !.nf = nf, !.ns = ns, !.nk = nk, !.f = 1, !.pc = "feature"]
  /\ FlightUnchanged

\* for (const featureFile of featureFiles) await this.runFeature(featureFile),
\* up to its await of parseAndPlan
CallRunFeature ==
  /\ pc = "flight"
  /\ flight.pc = "feature"
  /\ flight.f <= flight.nf
  /\ flight' = [flight EXCEPT
       !.running = @ \cup {Op("runFeature", flight.f, 0, 0), Op("parseAndPlan", flight.f, 0, 0)},
       !.s = 0, !.k = 0, !.pc = "planning"]
  /\ FlightUnchanged

\* parseAndPlan returns and executor.initialize() is awaited, or it raises and
\* the catch of runFeature ends the feature
PlanReturns ==
  /\ pc = "flight"
  /\ flight.pc = "planning"
  /\ \E out \in {"ok", "raise"} :
       flight' = IF out = "ok"
                 THEN [flight EXCEPT
                         !.running = Without(@, {Op("parseAndPlan", flight.f, 0, 0)})
                                       \cup {Op("initialize", flight.f, 0, 0)},
                         !.pc = "initializing"]
                 ELSE [flight EXCEPT
                         !.running = Without(@, {Op("parseAndPlan", flight.f, 0, 0),
                                                 Op("runFeature", flight.f, 0, 0)}),
                         !.f = @ + 1, !.pc = "feature"]
  /\ FlightUnchanged

\* initialize returns, or raises into the catch of runFeature
InitializeReturns ==
  /\ pc = "flight"
  /\ flight.pc = "initializing"
  /\ \E out \in {"ok", "raise"} :
       flight' = IF out = "ok"
                 THEN [flight EXCEPT
                         !.running = Without(@, {Op("initialize", flight.f, 0, 0)}),
                         !.s = 1, !.pc = "scenario"]
                 ELSE [flight EXCEPT
                         !.running = Without(@, {Op("initialize", flight.f, 0, 0),
                                                 Op("runFeature", flight.f, 0, 0)}),
                         !.f = @ + 1, !.pc = "feature"]
  /\ FlightUnchanged

\* for (const scenario of testPlan.scenarios) await this.runScenario(...)
CallRunScenario ==
  /\ pc = "flight"
  /\ flight.pc = "scenario"
  /\ flight.s <= flight.ns
  /\ flight' = [flight EXCEPT
       !.running = @ \cup {Op("runScenario", flight.f, flight.s, 0)},
       !.k = 1, !.pc = "step"]
  /\ FlightUnchanged

\* const stepResult = await executor.executeStep(step, i)
CallExecuteStep ==
  /\ pc = "flight"
  /\ flight.pc = "step"
  /\ flight.k <= flight.nk
  /\ flight' = [flight EXCEPT
       !.running = @ \cup {Op("executeStep", flight.f, flight.s, flight.k)},
       !.pc = "inStep"]
  /\ FlightUnchanged

\* executeStep returns: the next step, or await this.analyzeFailed(...)
ExecuteStepReturns ==
  /\ pc = "flight"
  /\ flight.pc = "inStep"
  /\ \E out \in StepOutcomes :
       LET rest == Without(flight.running, {Op("executeStep", flight.f, flight.s, flight.k)})
       IN  flight' =
             CASE out = "ok" -> [flight EXCEPT !.running = rest, !.k = @ + 1, !.pc = "step"]
               [] out = "fail" ->
                    [flight EXCEPT
                       !.running = rest \cup {Op("analyzeFailed", flight.f, flight.s, flight.k)},
                       !.pc = IF Awaited("analyzeFailed") THEN "inAnalysis" ELSE "endScenario"]
  /\ FlightUnchanged

\* analyzeFailed returns; the caller waiting for it goes on to the break
AnalyzeFailedReturns ==
  /\ pc = "flight"
  /\ \E op \in flight.running :
       /\ op.kind = "analyzeFailed"
       /\ flight' = [flight EXCEPT
            !.running = Without(@, {op}),
            !.analysed = @ + 1,
            !.pc = IF flight.pc = "inAnalysis" THEN "endScenario" ELSE @]
  /\ FlightUnchanged

\* runScenario returns its result, after the break, the catch, or the last step
RunScenarioReturns ==
  /\ pc = "flight"
  /\ \/ flight.pc = "endScenario"
     \/ flight.pc = "step" /\ flight.k > flight.nk
  /\ flight' = [flight EXCEPT
       !.running = Without(@, {Op("runScenario", flight.f, flight.s, 0)}),
       !.s = @ + 1, !.k = 0, !.pc = "scenario"]
  /\ FlightUnchanged

\* await executor.cleanup() after the last scenario
CallCleanup ==
  /\ pc = "flight"
  /\ flight.pc = "scenario"
  /\ flight.s > flight.ns
  /\ flight' = [flight EXCEPT
       !.running = @ \cup {Op("cleanup", flight.f, 0, 0)}, !.pc = "cleaning"]
  /\ FlightUnchanged

\* cleanup returns or raises, the feature's result is pushed, runFeature returns
CleanupReturns ==
  /\ pc = "flight"
  /\ flight.pc = "cleaning"
  /\ flight' = [flight EXCEPT
       !.running = Without(@, {Op("cleanup", flight.f, 0, 0), Op("runFeature", flight.f, 0, 0)}),
       !.f = @ + 1, !.s = 0, !.pc = "feature"]
  /\ FlightUnchanged

\* after the last feature: generateFinalReport and the return of runTestSuite
SuiteReturns ==
  /\ pc = "flight"
  /\ flight.pc = "feature"
  /\ flight.f > flight.nf
  /\ flight' = [flight EXCEPT !.pc = "done"]
  /\ FlightUnchanged

FlightInit ==
  /\ Outside
  /\ files["cart.feature"] = "empty"
  /\ config = [enableCache |-> TRUE, forceRegenerate |-> FALSE]
  /\ Constructed
  /\ featureFiles = <<>>
  /\ pc = "flight"

FlightNext ==
  \/ RunSuite
  \/ CallRunFeature
  \/ PlanReturns
  \/ InitializeReturns
  \/ CallRunScenario
  \/ CallExecuteStep
  \/ ExecuteStepReturns
  \/ AnalyzeFailedReturns
  \/ RunScenarioReturns
  \/ CallCleanup
  \/ CleanupReturns
  \/ SuiteReturns

FlightSpec == FlightInit /\ [][FlightNext]_vars

(**************************** claims ***************************************)
\* the scenario results that runScenario has returned so far in this run
FinishedScenarios ==
  {featureResult.scenarios[k] : k \in 1..Len(featureResult.scenarios)}
  \cup UNION {{results[f].scenarios[k] : k \in 1..Len(results[f].scenarios)} :
              f \in 1..Len(results)}

AllSucceeded(steps) == \A k \in 1..Len(steps) : steps[k].success

HasFailure(sr) == ~AllSucceeded(sr.steps)

\* the index of the first unsuccessful step result
FirstFailure(sr) ==
  CHOOSE k \in 1..Len(sr.steps) :
    ~sr.steps[k].success /\ \A j \in 1..(k - 1) : sr.steps[j].success

\* C1: fail-fast. When step k is the first step with an unsuccessful result,
\* executeStep has been invoked k times in that scenario (i + 1 = k when the
\* loop is left), the scenario result holds exactly k step results and its
\* status is 'failed'; the loop is never at a further step once a result is
\* unsuccessful.
C1_FailFast ==
  /\ pc \in {"step", "inStep"} => AllSucceeded(scenarioResult.steps)
  /\ (pc = "endScenario" /\ HasFailure(scenarioResult)) =>
       /\ Len(scenarioResult.steps) = FirstFailure(scenarioResult)
       /\ i + 1 = FirstFailure(scenarioResult)
       /\ scenarioResult.status = "failed"
  /\ \A sr \in FinishedScenarios :
       HasFailure(sr) => Len(sr.steps) = FirstFailure(sr) /\ sr.status = "failed"

\* the spec's example: a scenario of MaxSteps steps whose second step fails
C1_Witness ==
  /\ pc = "endScenario"
  /\ scenarioResult.planSteps = MaxSteps
  /\ Len(scenarioResult.steps) = 2
  /\ scenarioResult.steps[1].success
  /\ ~scenarioResult.steps[2].success
  /\ scenarioResult.status = "failed"

\* C2: every scenario result returned by runScenario has a status among
\* passed, failed and error, and it is 'passed' exactly when every step of the
\* scenario has a result and every result is successful.
C2_TerminalStatus ==
  \A sr \in FinishedScenarios :
    /\ sr.status \in {"passed", "failed", "error"}
    /\ sr.status = "passed" <=> (Len(sr.steps) = sr.planSteps /\ AllSucceeded(sr.steps))

C2_Witness ==
  /\ \E sr \in FinishedScenarios : sr.status = "passed" /\ sr.planSteps = MaxSteps
  /\ \E sr \in FinishedScenarios : sr.status = "failed"

\* C3: when executeStep raises, runScenario catches it: the scenario ends
\* 'error' with the results of the steps before the raising one only, the
\* feature is still running, and every scenario of the plan gets a result
\* before cleanup.
C3_RaiseContained ==
  /\ (pc = "endScenario" /\ lastStep.out = "raise") =>
       /\ scenarioResult.status = "error"
       /\ Len(scenarioResult.steps) = i
       /\ i < scenarioResult.planSteps
       /\ AllSucceeded(scenarioResult.steps)
       /\ featureResult.status = "running"
  /\ pc = "cleanup" => Len(featureResult.scenarios) = Len(testPlan.scenarios)
  /\ \A f \in 1..Len(results) :
       featureLog[f].raised \in {"none", "cleanup"} =>
         Len(results[f].scenarios) = featureLog[f].planScenarios

\* a first scenario that ended 'error' and a second one that ran its step
C3_Witness ==
  /\ Len(featureResult.scenarios) >= 2
  /\ featureResult.scenarios[1].status = "error"
  /\ Len(featureResult.scenarios[2].steps) >= 1

\* C4: a feature that compiled and whose session was set up and torn down
\* without exception is 'passed' if and only if all its scenario results are
\* 'passed', and 'failed' otherwise.
C4_FeatureStatus ==
  \A f \in 1..Len(results) :
    featureLog[f].raised = "none" =>
      /\ results[f].status \in {"passed", "failed"}
      /\ results[f].status = "passed" <=>
           \A k \in 1..Len(results[f].scenarios) : results[f].scenarios[k].status = "passed"

\* a feature that is 'failed' because of one 'error' scenario, none 'failed'
C4_Witness ==
  \E f \in 1..Len(results) :
    /\ featureLog[f].raised = "none"
    /\ results[f].status = "failed"
    /\ \E k \in 1..Len(results[f].scenarios) : results[f].scenarios[k].status = "error"
    /\ \E k \in 1..Len(results[f].scenarios) : results[f].scenarios[k].status = "passed"
    /\ \A k \in 1..Len(results[f].scenarios) : results[f].scenarios[k].status # "failed"

\* C5: results holds one FeatureResult per feature file already run, in input
\* order, whatever raised; a feature for which something raised is 'error';
\* at the report the list has one entry per input file.
C5_OneResultPerFile ==
  /\ pc \in {"feature", "init", "launch", "newContext", "newPage", "scenario", "step",
            "inStep", "endScenario", "cleanup"} =>
       Len(results) = fi - 1
  /\ pc \in {"report", "done"} => Len(results) = Len(featureFiles)
  /\ \A f \in 1..Len(results) :
       /\ results[f].featureFile = featureFiles[f]
       /\ results[f].status \in {"passed", "failed", "error"}
       /\ featureLog[f].raised # "none" => results[f].status = "error"

\* the first feature's compile raised and the second feature ran its scenarios
C5_Witness ==
  /\ pc = "done"
  /\ Len(results) = 2
  /\ featureLog[1].raised = "compile"
  /\ results[1].status = "error"
  /\ Len(results[2].scenarios) >= 1

\* the executor calls of a feature with n scenarios, as the claim has them
SessionOf(n) == <<"initialize">> \o [k \in 1..n |-> "scenario"] \o <<"cleanup">>

\* C6, as claimed: for every feature whose plan compiles, the session is
\* initialised once before the first scenario and torn down once after the
\* last one and before the next feature starts, with nothing in between but
\* the scenarios. A browser that never launched is not a session.
C6_SessionPerFeature ==
  \A f \in 1..Len(featureLog) :
    (featureLog[f].compiled /\ featureLog[f].raised # "launch") =>
      featureLog[f].session = SessionOf(featureLog[f].planScenarios)

\* C7: when the diagnostic analysis of a failed step raises, the scenario
\* ends 'failed', the failed step is its last and only unsuccessful result,
\* without diagnostic, and the failed counter went up by one.
C7_DiagnosticSwallowed ==
  (pc = "endScenario" /\ lastStep.diag = "raise") =>
    /\ scenarioResult.status = "failed"
    /\ Len(scenarioResult.steps) = i + 1
    /\ ~scenarioResult.steps[i + 1].success
    /\ ~scenarioResult.steps[i + 1].diagnostic
    /\ \A k \in 1..i : scenarioResult.steps[k].success
    /\ overallStats.failed = lastStep.failedBefore + 1

C7_Witness ==
  /\ pc = "endScenario"
  /\ lastStep.out = "fail"
  /\ lastStep.diag = "raise"

\* some step result of the run is unsuccessful
SomeStepFailed ==
  \E f \in 1..Len(results) : \E k \in 1..Len(results[f].scenarios) :
    HasFailure(results[f].scenarios[k])

\* C8: the exit status is non-zero whenever a step returned an unsuccessful
\* result.
C8_ExitStatus == (pc = "done" /\ SomeStepFailed) => exitCode >= 1

\* a run with passed steps and one failed step, whose report was saved
C8_Witness ==
  /\ pc = "done"
  /\ SomeStepFailed
  /\ overallStats.passed >= 1
  /\ overallStats.failed = 1
  /\ exitCode = 1

\* the entry of the cache file was written for text with the current hash
HashMatched ==
  /\ lastCompile.path \in Paths
  /\ lastCompile.stored = generateHash(lastCompile.text)

\* C9, as claimed: a cached plan is returned only when the entry is less than
\* 7 days old.
C9_HitOnlyUnderMaxAge == lastCompile.hit => lastCompile.age < maxAge

\* C9, amended: a cached plan is returned only when the entry is at most
\* maxAge old; an entry older than maxAge is a miss even when its hash
\* matches, and the source is compiled again.
C9_HitOnlyUpToMaxAge ==
  /\ lastCompile.hit => lastCompile.age <= maxAge
  /\ (lastCompile.consulted /\ HashMatched /\ lastCompile.age > maxAge) =>
       /\ ~lastCompile.hit
       /\ lastCompile.plan # NullPlan
       /\ lastCompile.plan.source = lastCompile.text

C9_Witness ==
  /\ lastCompile.consulted
  /\ HashMatched
  /\ lastCompile.age = maxAge + 1
  /\ ~lastCompile.hit

\* C10, as claimed: after a change to a file's text, the next compile of that
\* file is a cache miss.
C10_ChangeIsMiss == lastCompile.changed => ~lastCompile.hit

\* C10, amended: a compile is a miss whenever the stored contentHash differs
\* from the hash of the current text, whatever the entry's age, and a hit
\* returns a plan compiled from text with the hash of the current text.
C10_HitOnlySameHash ==
  /\ ~HashMatched => ~lastCompile.hit
  /\ lastCompile.hit =>
       generateHash(lastCompile.plan.source) = generateHash(lastCompile.text)

\* a changed file, compiled against a fresh entry written for its old text
C10_Witness ==
  /\ lastCompile.changed
  /\ lastCompile.consulted
  /\ lastCompile.stored # "absent"
  /\ ~HashMatched
  /\ lastCompile.age <= maxAge
  /\ ~lastCompile.hit

\* the last compile was a parseAndPlan call, and it returned a plan
Returned == lastCompile.path \in Paths /\ ~lastCompile.raised

\* the entry of the cache file of the last compile, as it is now
Entry == cache[getCacheFilePath(lastCompile.path)]

\* the steps of a plan
StepsOf(plan) ==
  UNION {{plan.scenarios[n].steps[j] : j \in 1..Len(plan.scenarios[n].steps)} :
         n \in 1..Len(plan.scenarios)}

\* a plan with every generated address put back to the token it replaced
Template(plan) ==
  [plan EXCEPT !.scenarios =
     [n \in 1..Len(plan.scenarios) |->
        [plan.scenarios[n] EXCEPT !.steps =
           [j \in 1..Len(plan.scenarios[n].steps) |->
              [plan.scenarios[n].steps[j] EXCEPT
                 !.data = IF @.kind = "email" THEN EmailToken ELSE @]]]]]

\* C11: the plan a compile returns, from the cache or not, holds no '<email>'
\* token: where the source has the token the plan has an address generated
\* by this compile; the entry of the cache file holds the plan with the
\* tokens and no generated address.
C11_TemplateCached ==
  Returned =>
    /\ \A step \in StepsOf(lastCompile.plan) :
         /\ step.data.kind # "token"
         /\ step.data.kind = "email" => step.data.at = lastCompile.at
    /\ \A n \in 1..Len(lastCompile.plan.scenarios) :
         \A j \in 1..Len(lastCompile.plan.scenarios[n].steps) :
           DocData(lastCompile.text, lastCompile.plan.scenarios[n].name, j).kind = "token"
             => lastCompile.plan.scenarios[n].steps[j].data.kind = "email"
    /\ (lastCompile.hit \/ lastCompile.saved) =>
         /\ Entry.plan = Template(lastCompile.plan)
         /\ \A step \in StepsOf(Entry.plan) : step.data.kind # "email"

\* a cache hit on the source with the payload, later than the entry: the
\* address is of this compile and the entry still holds the token
C11_Witness ==
  /\ Returned
  /\ lastCompile.hit
  /\ lastCompile.text = "signup"
  /\ lastCompile.at > Entry.timestamp
  /\ \E step \in StepsOf(lastCompile.plan) :
       step.data.kind = "email" /\ step.data.at = lastCompile.at
  /\ \E step \in StepsOf(Entry.plan) : step.data.kind = "token"

\* C12: with the cache on and force off, a compile that finds the entry a
\* compile of the same text wrote at most maxAge ago is a hit: it does not ask
\* the oracle, writes nothing, and its plan equals the entry, that is the plan
\* of the compile that wrote it, apart from the substituted values; the
\* compile that wrote the entry asked the oracle.
C12_Idempotent ==
  /\ (lastCompile.path \in Paths /\ lastCompile.consulted /\ HashMatched
        /\ lastCompile.age <= maxAge) =>
       /\ lastCompile.hit
       /\ ~lastCompile.oracle
       /\ ~lastCompile.saved
       /\ ~lastCompile.raised => Template(lastCompile.plan) = Entry.plan
  /\ (Returned /\ lastCompile.saved) =>
       /\ lastCompile.oracle
       /\ Template(lastCompile.plan) = Entry.plan

\* the second of two compiles of the unchanged source with the payload
C12_Witness ==
  /\ compiles = 2
  /\ Returned
  /\ ~lastCompile.changed
  /\ lastCompile.text = "signup"
  /\ lastCompile.age >= 1
  /\ lastCompile.hit
  /\ ~lastCompile.oracle

\* C13, as claimed: a scenario outline of N example rows compiles to N
\* scenarios, the i-th named (Example i) with every <param> replaced by the
\* value of row i, from the oracle or from the heuristic fallback.
C13_OutlineExpanded ==
  (Returned /\ lastCompile.text = "outline" /\ lastCompile.reply \in {"web", "salesforce", "fail"}) =>
    /\ Len(lastCompile.plan.scenarios) = MaxRows
    /\ \A n \in 1..Len(lastCompile.plan.scenarios) :
         /\ lastCompile.plan.scenarios[n].example = n
         /\ \A j \in 1..Len(lastCompile.plan.scenarios[n].steps) :
              /\ ~lastCompile.plan.scenarios[n].steps[j].residual
              /\ lastCompile.plan.scenarios[n].steps[j].row = n

\* C14, as claimed: for a source with a feature block, no oracle outcome
\* makes compile raise, and a failed oracle gives the heuristic's plan.
C14_OracleNeverFatal ==
  (lastCompile.path \in Paths /\ lastCompile.oracle) =>
    /\ ~lastCompile.raised
    /\ lastCompile.reply = "fail" =>
         Template(lastCompile.plan).scenarios = PlanScenarios(lastCompile.text)

\* C15: compiling a source without a feature block raises, without asking
\* the oracle and without writing the cache file: the entry is the one found.
C15_NoFeatureParseError ==
  (lastCompile.path \in Paths /\ lastCompile.text = "noFeature") =>
    /\ lastCompile.raised
    /\ ~lastCompile.hit
    /\ ~lastCompile.oracle
    /\ ~lastCompile.saved
    /\ lastCompile.plan = NullPlan
    /\ Entry.contentHash = lastCompile.stored
    /\ lastCompile.stored # "absent" => Entry.timestamp = lastCompile.at - lastCompile.age

\* the cache is on and its file holds the entry of an earlier text
C15_Witness ==
  /\ lastCompile.path \in Paths
  /\ lastCompile.text = "noFeature"
  /\ lastCompile.consulted
  /\ lastCompile.stored # "absent"
  /\ lastCompile.raised
  /\ Entry.contentHash = lastCompile.stored

\* the step of the executor has returned its result
StepDone(action) == exec.pc = "done" /\ exec.action = action

\* the oracle answered and no Locate strategy found an element
NothingLocated ==
  /\ exec.pc = "done"
  /\ exec.action \in {"click", "type", "select"}
  /\ exec.tried # {}
  /\ ~exec.located

\* C16: in a vision-mode click whose proposed selector matches nothing while a
\* generic button is on the page, the step succeeds and `clicked` is the
\* generic selector that located the element.
C16_GenericFallback ==
  (StepDone("click") /\ exec.vision = "plain" /\ ~exec.page.primary /\ exec.page.generic)
    => (exec.result.success /\ exec.result.clicked = "generic")

\* C17: in a vision-mode click, type or select in which no Locate strategy
\* finds an element, the step fails with the error of the Locate phase and no
\* click, fill or select primitive is attempted on the element.
C17_LocateRaises ==
  NothingLocated =>
    /\ ~exec.result.success
    /\ exec.error = "locate"
    /\ exec.primitives \cap {"click", "jsClick", "fill", "type", "selectOption"} = {}

\* C18 (as stated): in a validate step of type 'exists' the text search runs
\* at most maxRetries rounds; the vision oracle is consulted (its screenshot
\* taken, its request sent) at most once and only after maxRetries rounds
\* that did not find the text; a round that finds the text means the oracle
\* is never consulted; when neither the rounds nor the oracle find the text
\* the step fails with the validation error.
C18_VisionAfterDom ==
  (exec.action = "validate" /\ exec.validation = "exists") =>
    /\ exec.rounds <= maxRetries
    /\ exec.oracleCalls <= 1
    /\ (exec.oracleCalls = 1 \/ exec.visionShot # "none") =>
         (exec.useVision /\ ~exec.domFound /\ exec.rounds = maxRetries
            /\ exec.retryCount = maxRetries)
    /\ exec.oracleCalls = 1 => exec.visionShot = "ok"
    /\ exec.domFound => (exec.oracleCalls = 0 /\ exec.visionShot = "none")
    /\ (exec.pc = "done" /\ ~exec.domFound /\ exec.vision # "found") =>
         (~exec.result.success /\ exec.error = "validation")
    /\ (exec.pc = "done" /\ exec.error = "validation") =>
         (~exec.domFound /\ exec.rounds = maxRetries)

\* C19: when the vision oracle is unreachable or answers unusable content in
\* a click, type or select step, the Locate fallback chain is still tried and
\* the step does not fail for that reason alone.
C19_OracleFailureFallsBack ==
  (exec.pc = "done" /\ exec.action \in {"click", "type", "select"}
     /\ VisionRaises(exec.vision))
    => (exec.tried # {} /\ exec.error # "oracle")

\* C21: when the content the vision oracle answered is not JSON, also after
\* the markdown fence was unwrapped, the oracle is called a second time, and
\* the resolution raises only when the second call fails too.
C21_RetriesOnce ==
  (exec.pc = "done" /\ exec.action \in {"click", "type", "select"}
     /\ exec.vision = "invalid")
    => exec.oracleCalls = 2

\* the executor as seen without the advisory values of the oracle's answer
Observed(e) == [e EXCEPT !.confidence = "none", !.reasoning = "none"]

\* C22: the confidence and the reasoning of the oracle's answer change nothing
\* in what a click, type or select step does next: from an executor that
\* differs only in them, the Locate phase, the Act phase and the step result
\* lead to the same executors, up to these two values.
C22_ConfidenceAdvisory ==
  exec.confidence # "none" =>
    \A c \in Confidences, r \in Reasonings :
      {Observed(x) : x \in ExecSuccessors([exec EXCEPT !.confidence = c, !.reasoning = r])}
        = {Observed(x) : x \in ExecSuccessors(exec)}

\* a click whose answer had low confidence went through the selector of the
\* oracle and succeeded
C22_Witness ==
  /\ StepDone("click")
  /\ exec.confidence = "low"
  /\ exec.reasoning = "guess"
  /\ exec.tried = {"primary"}
  /\ exec.result.success

\* C23: every step result, of a successful or of a failed step, holds a
\* screenshot and the console and network error logs.
C23_ResultCarriesEvidence ==
  exec.pc = "done" =>
    (exec.result.screenshot = "image" /\ exec.result.diagnostics)

\* the running calls of some methods
Running(kinds) == {op \in flight.running : op.kind \in kinds}

\* C24: at most one step is in flight, and it is the current step of the
\* current scenario of the current feature; while the analysis of a failed
\* step runs, its caller waits and no step runs; at most one scenario and one
\* feature are running, and every running call belongs to the running feature.
C24_OneAtATime ==
  /\ Cardinality(Running({"executeStep", "analyzeFailed", "parseAndPlan",
                          "initialize", "cleanup"})) <= 1
  /\ Cardinality(Running({"runScenario"})) <= 1
  /\ Cardinality(Running({"runFeature"})) <= 1
  /\ \A op \in Running({"executeStep"}) :
       /\ flight.pc = "inStep"
       /\ op = Op("executeStep", flight.f, flight.s, flight.k)
  /\ \A op \in Running({"analyzeFailed"}) :
       /\ flight.pc = "inAnalysis"
       /\ op = Op("analyzeFailed", flight.f, flight.s, flight.k)
  /\ \A op \in Running({"runScenario"}) : op = Op("runScenario", flight.f, flight.s, 0)
  /\ \A op \in flight.running : op.f = flight.f
  /\ flight.pc = "inStep" => Running({"executeStep"}) # {}
  /\ flight.pc \in {"feature", "done"} => flight.running = {}

\* a step of the second feature in flight, after the analysis of a failed
\* step of the first feature completed
C24_Witness ==
  /\ flight.pc = "inStep"
  /\ flight.f = 2
  /\ flight.analysed >= 1
  /\ Running({"executeStep"}) = {Op("executeStep", 2, flight.s, flight.k)}

C26_CacheGating ==
  [][compiles' = compiles + 1 =>
       LET call == lastCompile'
           entry == cache'[getCacheFilePath(call.path)]
       IN  /\ call.hit => (config.enableCache /\ ~config.forceRegenerate)
           /\ config.forceRegenerate =>
                (/\ ~call.hit
                 /\ HasFeature(call.text) => call.oracle
                 /\ (config.enableCache /\ call.oracle) =>
                      (/\ call.saved
                       /\ entry.contentHash = generateHash(call.text)
                       /\ entry.timestamp = now))
           /\ ~config.enableCache =>
                (~call.hit /\ ~call.saved /\ cache' = cache)]_vars

\* a compile that found the fresh entry of the same text and yet asked the
\* oracle and wrote the entry again: force was on, the cache too
C26_Witness ==
  /\ compiles = 2
  /\ lastCompile.path \in Paths
  /\ lastCompile.stored = generateHash(lastCompile.text)
  /\ lastCompile.age <= maxAge
  /\ ~lastCompile.hit
  /\ lastCompile.oracle
  /\ lastCompile.saved

\* C27: with no base URL (no --url, no WEB_APP_URL) a navigate step goes to
\* http://localhost:4200 whatever its payload is, and never fails for the
\* missing URL.
C27_LocalhostFallback ==
  (StepDone("navigate") /\ exec.webAppUrl = "unset" /\ exec.payload # "url")
    => (/\ exec.error # "noUrl"
        /\ "goto" \in exec.primitives
        /\ exec.finalSelector \in {"localhost:4200", "localhost:4200/path"})

\* the entry of the cache the last processFile call worked on
MigrationEntry == migration.loadedCache[MigrateBasename(migration.last.path)]

\* C28: processFile skips a file, asking no oracle and writing no feature
\* file, exactly when force is off and the migration cache holds under the
\* file's name an entry with the file's current hash; a processing that
\* succeeded leaves the file's hash at that moment in the entry; so a file
\* whose hash equals the entry is skipped and one whose hash differs is not.
C28_SkipIffUnchanged ==
  migration.last.path # "none" =>
    LET call == migration.last
    IN  /\ call.skipped <=>
             (~call.force /\ call.found # "absent" /\ call.found = call.hashAtCheck)
        /\ call.skipped =>
             (/\ ~call.oracle /\ ~call.written /\ migration.pc = "idle"
              /\ MigrationEntry = call.found)
        /\ (~call.skipped /\ migration.pc \in {"inferred", "idle"}) => call.oracle
        /\ call.written =>
             (/\ call.oracle /\ ~call.raised
              /\ MigrationEntry = call.hashAtUpdate
              /\ call.saved => migration.disk[MigrateBasename(call.path)] = call.hashAtUpdate)
        /\ (call.raised \/ call.skipped) => MigrationEntry = call.found

\* the second call on an unchanged file, skipped on the entry the first wrote
C28_Witness ==
  /\ migration.calls = 2
  /\ migration.last.skipped
  /\ migration.last.found = calculateFileHash(migration.src[migration.last.path])
  /\ migration.disk[MigrateBasename(migration.last.path)] = migration.last.found

\* C29: in a vision-mode click the JavaScript click is attempted at most once
\* and only after the normal click attempt raised; a normal click that works
\* is the only attempt; the Act phase raises exactly when both attempts raised.
C29_DomClickLast ==
  (exec.action = "click" /\ exec.useVision /\ exec.attempts # <<>>) =>
    /\ Len(exec.attempts) <= 2
    /\ exec.attempts[1].kind = "interactive"
    /\ Len(exec.attempts) = 2 =>
         (exec.attempts[1].raised /\ exec.attempts[2].kind = "dom")
    /\ ~exec.attempts[1].raised =>
         (Len(exec.attempts) = 1 /\ "jsClick" \notin exec.primitives)
    /\ exec.attempts[1].raised => Len(exec.attempts) = 2
    /\ (exec.error = "act") <=> (\A n \in 1..Len(exec.attempts) : exec.attempts[n].raised)

\* a click whose normal attempt raised and whose JavaScript click worked
C29_Witness ==
  /\ StepDone("click")
  /\ exec.useVision
  /\ Len(exec.attempts) = 2
  /\ exec.attempts[1].raised
  /\ ~exec.attempts[2].raised
  /\ exec.result.success

\* C20, as claimed: every step of a plan that compile returns from the
\* oracle's reply has an empty selector.
C20_SelectorsEmpty ==
  (Returned /\ lastCompile.oracle /\ lastCompile.reply # "fail") =>
    \A step \in StepsOf(lastCompile.plan) : step.selector = ""

\* C30: a compile that raises has written no cache entry, and no compile
\* raises on an entry it found in the cache.
C30_RaiseLeavesCache ==
  (lastCompile.path \in Paths /\ lastCompile.raised) =>
    (~lastCompile.saved /\ ~lastCompile.hit)

\* C31: the run-level counters satisfy totalSteps = passed + failed whenever
\* no executeStep call is awaited: at the end of every scenario and in the
\* summary of the final report, also after a step raised and its scenario
\* ended 'error'; while a call is awaited, the step in execution is the one
\* step counted and not yet passed or failed.
C31_CountersAddUp ==
  overallStats.totalSteps =
    overallStats.passed + overallStats.failed + (IF pc = "inStep" THEN 1 ELSE 0)

\* the report of a run in which a step passed and a later step raised, so
\* that a scenario ended 'error'
C31_Witness ==
  /\ pc = "done"
  /\ overallStats.passed >= 1
  /\ \E f \in 1..Len(results) : \E k \in 1..Len(results[f].scenarios) :
       results[f].scenarios[k].status = "error"

\* C32 (as stated): a run exits with status 0 only if every feature pushed to
\* the results ended 'passed'.
C32_ExitZeroOnlyIfAllPassed ==
  (pc = "done" /\ exitCode = 0) =>
    \A f \in 1..Len(results) : results[f].status = "passed"

\* the number of steps executed so far in the scenario being run: the
\* executeStep calls that are over (the one awaited is not)
Executed == IF pc = "endScenario" THEN i + 1 ELSE i

\* the step results of the scenario being run are where they were after this
\* step: in its result, or in the feature's list once the scenario is pushed
KeptAfterStep(j) ==
  IF scenarioResult' = NoScenarioResult
  THEN /\ Len(featureResult'.scenarios) = Len(featureResult.scenarios) + 1
       /\ featureResult'.scenarios[Len(featureResult'.scenarios)].steps[j]
            = scenarioResult.steps[j]
  ELSE /\ j <= Len(scenarioResult'.steps)
       /\ scenarioResult'.steps[j] = scenarioResult.steps[j]

\* C33: while a scenario is run, its result list holds exactly one step
\* result for each step executed so far, in execution order; a step result
\* is the same ever after, in the scenario's list and in the feature's list,
\* in particular once its diagnostic is attached; a diagnostic is attached
\* to an unsuccessful result only, the last of its list.
C33_OneResultPerStep ==
  /\ [](pc \in {"step", "inStep", "endScenario"} =>
         /\ Len(scenarioResult.steps) = Executed
         /\ \A j \in 1..Len(scenarioResult.steps) :
              /\ scenarioResult.steps[j].step = j
              /\ scenarioResult.steps[j].diagnostic =>
                   (~scenarioResult.steps[j].success /\ j = Len(scenarioResult.steps)))
  /\ [][/\ pc \in {"step", "inStep", "endScenario"} =>
            \A j \in 1..Len(scenarioResult.steps) : KeptAfterStep(j)
        /\ featureResult' # NoFeatureResult =>
            \A k \in 1..Len(featureResult.scenarios) :
              /\ k <= Len(featureResult'.scenarios)
              /\ featureResult'.scenarios[k].steps = featureResult.scenarios[k].steps]_vars

\* a scenario left at its second step: the first result successful, the
\* second unsuccessful with its diagnostic attached
C33_Witness ==
  /\ pc = "endScenario"
  /\ Len(scenarioResult.steps) = 2
  /\ scenarioResult.steps[1].success
  /\ ~scenarioResult.steps[2].success
  /\ scenarioResult.steps[2].diagnostic
  /\ lastStep.diag = "ok"

\* the cache file consulted by the last compile was damaged: it could not be
\* read or parsed, or the entry it returned was not one saveToCache wrote
CacheDamaged ==
  /\ lastCompile.path \in Paths
  /\ lastCompile.consulted
  /\ \/ lastCompile.stored \in {"garbled", "locked"}
     \/ lastCompile.plan.source = "damaged"

\* C34 (as stated): a compile that consults a damaged cache file behaves as
\* on a cache miss: it takes nothing from the cache and raises only when the
\* source holds no feature block or the oracle's reply is malformed, and it
\* returns the plan although the cache file cannot be written.
C34_CacheErrorsAreMisses ==
  CacheDamaged =>
    /\ ~lastCompile.hit
    /\ HasFeature(lastCompile.text) => lastCompile.oracle
    /\ lastCompile.raised =>
         (~HasFeature(lastCompile.text) \/ lastCompile.reply = "malformed")

\* the strings of a payload: the string itself, the items of a list, the
\* values of a field-map
PayloadStrings(data) ==
  IF data.shape = "string" THEN {data.value}
  ELSE {data.items[n].value : n \in 1..Len(data.items)}

\* C35 (as stated): after processDynamicPlaceholders, no string of the step
\* payload holds a part matching <email>, <random_email> or {{email}}.
C35_NoPlaceholderLeft ==
  draft.pc = "planned" =>
    \A s \in PayloadStrings(draft.data) :
      \A n \in 1..Len(emailPatterns) : ~PatternTest(emailPatterns[n], s)

\* actionKind of the spec
ActionKinds == {"navigate", "click", "type", "select", "validate", "wait", "hover",
                "scroll", "unknown"}

\* C36 (as stated): the action of an interpreted step, from the oracle's reply
\* or from the heuristic fallback, is one of the nine action kinds.
C36_ActionKindClosed ==
  draft.pc = "interpreted" => draft.action \in ActionKinds

\* the plan of basicInterpretation for the text it was compiled from
Heuristic(plan) ==
  /\ plan.type = "web"
  /\ plan.wellFormed
  /\ plan.scenarios = PlanScenarios(plan.source)

\* C37: a compile whose oracle request fails returns the plan of the heuristic
\* fallback and, the cache being on, saves it as the entry of the file; a
\* compile that consults the cache and finds a heuristic plan saved for the
\* same text at most maxAge ago returns that plan, with its placeholders
\* substituted, without asking the oracle and without writing.
C37_FallbackCached ==
  [][compiles' = compiles + 1 =>
       LET call == lastCompile'
           before == cache[getCacheFilePath(call.path)]
           after == cache'[getCacheFilePath(call.path)]
       IN  /\ (call.oracle /\ call.reply = "fail") =>
                /\ ~call.raised
                /\ Heuristic(Template(call.plan))
                /\ config.enableCache =>
                     /\ call.saved
                     /\ after.plan = Template(call.plan)
                     /\ after.contentHash = generateHash(call.text)
                     /\ after.timestamp = now
           /\ (/\ config.enableCache /\ ~config.forceRegenerate
               /\ before # NoEntry
               /\ Heuristic(before.plan)
               /\ before.contentHash = generateHash(call.text)
               /\ now - before.timestamp <= maxAge) =>
                /\ call.hit
                /\ ~call.oracle
                /\ ~call.raised
                /\ Template(call.plan) = before.plan
                /\ cache' = cache]_vars

\* the second compile of the source with the payload, later than the first,
\* whose oracle request failed: a hit on the heuristic plan, the oracle not asked
C37_Witness ==
  /\ compiles = 2
  /\ Returned
  /\ lastCompile.hit
  /\ ~lastCompile.oracle
  /\ lastCompile.text = "signup"
  /\ lastCompile.age >= 1
  /\ Entry.plan.scenarios = PlanScenarios("signup")
  /\ Entry.plan.scenarios # OracleScenarios("signup", "")

\* C39 (as stated): a vision-mode click that succeeded records as `clicked`
\* the selector of the locator the click was performed on, whichever Locate
\* strategy (primary, text variant, generic) assigned it.
C39_ClickedIsActedOn ==
  (StepDone("click") /\ exec.useVision /\ exec.result.success)
    => exec.result.clicked = exec.element

\* C38 (as stated): a validate step is reported successful only if its
\* validation is of type exists, equals or contains and was found satisfied.
C38_ValidatedOnlyIfSatisfied ==
  (StepDone("validate") /\ exec.result.success) =>
    /\ exec.validation \in {"exists", "equals", "contains"}
    /\ exec.found

\* a step whose action the switch of executeStep has no case for
Unhandled ==
  exec.action \notin {"none", "navigate", "click", "type", "select", "validate",
                      "wait", "hover", "scroll"}

\* C40 (as stated): a step whose action is none of the eight handled kinds is
\* reported successful, with no locate or act operation on the page.
C40_UnhandledSucceeds ==
  (exec.pc = "done" /\ Unhandled) =>
    /\ exec.result.success
    /\ exec.primitives = {} /\ exec.tried = {} /\ exec.oracleCalls = 0

\* C40 (amended): such a step performs no locate or act operation and asks no
\* oracle; it is reported successful, as skipped, and the step loop goes on,
\* exactly when the screenshot of the step could be taken; otherwise it is
\* reported failed with the error of the screenshot.
C40_UnhandledSkipped ==
  (exec.pc = "done" /\ Unhandled) =>
    /\ exec.primitives = {} /\ exec.tried = {} /\ exec.oracleCalls = 0
    /\ exec.error \in {"none", "screenshot"}
    /\ exec.result.success <=> exec.error = "none"
    /\ exec.result.success =>
         (exec.result.result = "skipped" /\ LoopContinues(exec.result))

\* a step of action 'setup' reported successful and skipped
C40_Witness ==
  /\ exec.pc = "done"
  /\ exec.action = "setup"
  /\ exec.result.success
  /\ exec.result.result = "skipped"
  /\ exec.primitives = {}

====
